---- MODULE Spec2Model ----
(***************************************************************************)
(* Verification model of the ARM request pipeline (arm.ts: armRequest) and *)
(* of the dynamic tool lifecycle (tools/dynamicTools.ts, connections.ts).  *)
(***************************************************************************)
EXTENDS Integers, Sequences, FiniteSets, TLC

\* ------------------------------------------------------------------------
\* Program constants (arm.ts)
\* ------------------------------------------------------------------------
\* a retry budget one retry short of the code's
MAX_RETRIES_TwoRetries == 3 - 1

MAX_RETRIES == 3
REQUEST_TIMEOUT_MS == 30000

\* ------------------------------------------------------------------------
\* Bounds of the model
\* ------------------------------------------------------------------------
\* number of armRequest calls explored one after the other
MaxCalls == 2

\* number of tool calls (put_connection, refresh_tools) handled after startup
MaxRuns == 2

\* granularity with which time passes while a fetch is in flight
TickMs == REQUEST_TIMEOUT_MS \div 3

\* ------------------------------------------------------------------------
\* Environment: what the HTTP endpoint can answer
\* ------------------------------------------------------------------------
Statuses == {200, 304, 400, 404, 429, 503}

NoHeader == "<null>"
RetryAfterHeaders == {NoHeader, "5", "soon"}

\* Math.random() * 1000 lies in [0, 1000)
Jitters == {0, 999}

\* response bodies, as texts
BodyEmpty == ""
BodyOkTrue == "{\"ok\":true}"
BodyHtml == "<html>Bad Gateway</html>"
BodyEnvelope == "{\"error\":{\"code\":\"InvalidParameter\",\"message\":\"bad\"}}"
BodyCodeOnly == "{\"error\":{\"code\":\"AuthorizationFailed\"}}"
BodyMsgOnly == "{\"error\":{\"message\":\"denied\"}}"
Bodies == {BodyEmpty, BodyOkTrue, BodyHtml, BodyEnvelope, BodyCodeOnly, BodyMsgOnly}

Undefined == "<undefined>"

\* no response is at hand
NoBody == "<no response>"

\* JSON.parse on the texts above: [throws] when the text is no JSON, else the
\* decoded value (named by val) and the fields of its error member, if any.
JsonParse(text) ==
  CASE text = BodyOkTrue ->
         [throws |-> FALSE, val |-> "{ok:true}", hasError |-> FALSE,
          code |-> Undefined, message |-> Undefined]
    [] text = BodyEnvelope ->
         [throws |-> FALSE, val |-> "{error:{code,message}}", hasError |-> TRUE,
          code |-> "InvalidParameter", message |-> "bad"]
    [] text = BodyCodeOnly ->
         [throws |-> FALSE, val |-> "{error:{code}}", hasError |-> TRUE,
          code |-> "AuthorizationFailed", message |-> Undefined]
    [] text = BodyMsgOnly ->
         [throws |-> FALSE, val |-> "{error:{message}}", hasError |-> TRUE,
          code |-> Undefined, message |-> "denied"]
    [] OTHER ->
         [throws |-> TRUE, val |-> Undefined, hasError |-> FALSE,
          code |-> Undefined, message |-> Undefined]

\* parseInt(header, 10) on the header texts above
ParseInt(h) ==
  CASE h = "0" -> [nan |-> FALSE, n |-> 0]
    [] h = "5" -> [nan |-> FALSE, n |-> 5]
    [] OTHER -> [nan |-> TRUE, n |-> 0]

RECURSIVE Pow2(_)
Pow2(n) == IF n = 0 THEN 1 ELSE 2 * Pow2(n - 1)

Min(a, b) == IF a < b THEN a ELSE b

\* ------------------------------------------------------------------------
\* arm.ts helpers
\* ------------------------------------------------------------------------
\* getRetryDelay(attempt, retryAfterHeader), with the value Math.random gave
getRetryDelay(att, retryAfterHeader, jitter) ==
  IF retryAfterHeader # NoHeader /\ retryAfterHeader # ""
       /\ ~ParseInt(retryAfterHeader).nan
    THEN ParseInt(retryAfterHeader).n * 1000
    ELSE Pow2(att) * 1000 + jitter

isRetryable(status) == status = 429 \/ status >= 500

\* Response.ok
ResponseOk(status) == status >= 200 /\ status <= 299

\* the status text of the fallback message `ARM request failed with status N`
StatusText(status) ==
  CASE status = 200 -> "200" [] status = 304 -> "304" [] status = 400 -> "400"
    [] status = 404 -> "404" [] status = 429 -> "429" [] status = 503 -> "503" [] OTHER -> "?"

FallbackMessage(status) == "ARM request failed with status " \o StatusText(status)

\* ------------------------------------------------------------------------
\* Strings, as sequences of characters
\* ------------------------------------------------------------------------
UpperSeq == <<"A", "B", "C", "D", "E", "F", "G", "H", "I", "J", "K", "L", "M",
              "N", "O", "P", "Q", "R", "S", "T", "U", "V", "W", "X", "Y", "Z">>
LowerSeq == <<"a", "b", "c", "d", "e", "f", "g", "h", "i", "j", "k", "l", "m",
              "n", "o", "p", "q", "r", "s", "t", "u", "v", "w", "x", "y", "z">>
DigitSeq == <<"0", "1", "2", "3", "4", "5", "6", "7", "8", "9">>

Range(f) == {f[i] : i \in DOMAIN f}

Uppers == Range(UpperSeq)
Lowers == Range(LowerSeq)
Digits == Range(DigitSeq)

IsUpper(c) == c \in Uppers
IsLower(c) == c \in Lowers
IsDigit(c) == c \in Digits

\* String.prototype.toLowerCase, one character
ToLowerChar(c) ==
  IF IsUpper(c) THEN LowerSeq[CHOOSE i \in DOMAIN UpperSeq : UpperSeq[i] = c] ELSE c

ToLowerCase(str) == [i \in DOMAIN str |-> ToLowerChar(str[i])]

\* String.prototype.startsWith
StartsWith(str, prefix) ==
  Len(str) >= Len(prefix) /\ SubSeq(str, 1, Len(prefix)) = prefix

\* .replace(/([a-z0-9])([A-Z])/g, "$1_$2"), scanning from position i
RECURSIVE SplitLowerUpper(_, _)
SplitLowerUpper(str, i) ==
  IF i > Len(str) THEN <<>>
  ELSE IF i < Len(str) /\ (IsLower(str[i]) \/ IsDigit(str[i])) /\ IsUpper(str[i + 1])
    THEN <<str[i], "_", str[i + 1]>> \o SplitLowerUpper(str, i + 2)
    ELSE <<str[i]>> \o SplitLowerUpper(str, i + 1)

\* the last position of the run of capitals that starts at i
RECURSIVE UpperRunEnd(_, _)
UpperRunEnd(str, i) ==
  IF i < Len(str) /\ IsUpper(str[i + 1]) THEN UpperRunEnd(str, i + 1) ELSE i

\* .replace(/([A-Z]+)([A-Z][a-z])/g, "$1_$2"), scanning from position i
RECURSIVE SplitAcronym(_, _)
SplitAcronym(str, i) ==
  IF i > Len(str) THEN <<>>
  ELSE IF ~IsUpper(str[i]) THEN <<str[i]>> \o SplitAcronym(str, i + 1)
  ELSE LET j == UpperRunEnd(str, i) IN
    IF j > i /\ j < Len(str) /\ IsLower(str[j + 1])
      THEN SubSeq(str, i, j - 1) \o <<"_", str[j], str[j + 1]>>
             \o SplitAcronym(str, j + 2)
      ELSE SubSeq(str, i, j) \o SplitAcronym(str, j + 1)

\* buildToolName(apiName, operationId): dynamicTools.ts lines 41-47
buildToolName(apiName, operationId) ==
  apiName \o <<"_">>
    \o ToLowerCase(SplitAcronym(SplitLowerUpper(operationId, 1), 1))

\* ------------------------------------------------------------------------
\* Environment of the lifecycle coordinator: connections and API documents
\* ------------------------------------------------------------------------
ApiList == <<"l", "i", "s", "t">>
ApiListV2 == <<"l", "i", "s", "t", "_", "v", "2">>
ApiNames == {ApiList, ApiListV2}

\* extractConnectionInfo(c): the ConnectionInfo of an ARM connection resource
ConnectionInfo(name, apiName, status) ==
  [name |-> name, apiName |-> apiName, status |-> status]

ConnList == ConnectionInfo("lists", ApiList, "Connected")
ConnListB == ConnectionInfo("lists-b", ApiList, "Unauthenticated")
ConnListV2 == ConnectionInfo("lists-v2", ApiListV2, "Connected")

\* bodies the connection listing can have (connResult.value)
Listings == {<<>>, <<ConnList>>, <<ConnListV2, ConnList>>, <<ConnList, ConnListB>>}

NoFamily == ""

\* one operation of a Swagger document, as parseOpenApiSpec reads it
Operation(operationId, visibility, isTrigger, deprecated, family, revision) ==
  [operationId |-> operationId, visibility |-> visibility, isTrigger |-> isTrigger,
   deprecated |-> deprecated, family |-> family, revision |-> revision,
   path |-> <<"{connectionId}", "v2", "items">>]

OpSend == Operation(<<"S", "e", "n", "d">>, "important", FALSE, FALSE, NoFamily, 0)
OpGetAll == Operation(<<"G", "e", "t", "A", "l", "l">>, "none", FALSE, FALSE, NoFamily, 0)
OpHook == Operation(<<"H", "o", "o", "k">>, "internal", FALSE, FALSE, NoFamily, 0)
OpPoll == Operation(<<"P", "o", "l", "l">>, "none", TRUE, FALSE, NoFamily, 0)
OpDel == Operation(<<"D", "e", "l">>, "none", FALSE, TRUE, "Del", 1)
OpDelV2 == Operation(<<"D", "e", "l", "V", "2">>, "none", FALSE, FALSE, "Del", 2)
OpOld == Operation(<<"O", "l", "d">>, "none", FALSE, TRUE, NoFamily, 0)
OpConnections == Operation(<<"C", "o", "n", "n", "e", "c", "t", "i", "o", "n", "s">>, "none", FALSE, FALSE, NoFamily, 0)
\* an operation without operationId gets `${method}_${path}`: line 255
OpNoId == Operation(<<"g", "e", "t", "_", "/", "{", "c", "o", "n", "n", "e", "c", "t",
                      "i", "o", "n", "I", "d", "}", "/", "v", "2">>,
                    "none", FALSE, FALSE, NoFamily, 0)
\* an operation whose operationId has 62 characters
OpLong == Operation([i \in 1..62 |-> IF i = 1 THEN "G" ELSE "x"],
                    "none", FALSE, FALSE, NoFamily, 0)
OpSub == [OpGetAll EXCEPT !.operationId = <<"S", "u", "b">>,
                          !.path = <<"{connectionId}", "$subscriptions", "{id}">>]

OpSubAll == [OpGetAll EXCEPT !.operationId = <<"S", "u", "b", "A", "l", "l">>,
                            !.path = <<"{connectionId}", "all$subscriptions">>]
OpAdvanced == Operation(<<"A", "d", "v">>, "advanced", FALSE, FALSE, NoFamily, 0)
OpDelV2b == Operation(<<"D", "e", "l", "V", "2", "b">>, "none", FALSE, TRUE, "Del", 2)
OpMove == Operation(<<"M", "o", "v", "e">>, "internal", FALSE, FALSE, "Move", 3)
OpMoveOld == Operation(<<"M", "o", "v", "e", "O", "l", "d">>, "none", FALSE, TRUE, "Move", 1)

\* Swagger documents: the operations of their paths, in document order
DocOps(doc) ==
  CASE doc = "two" -> <<OpSend, OpGetAll>>
    [] doc = "hidden" -> <<OpHook, OpPoll, OpSub, OpOld>>
    [] doc = "family" ->
         <<OpDel, OpSend, OpDelV2, [OpSend EXCEPT !.path = <<"{connectionId}", "v3">>]>>
    [] doc = "clash" -> <<OpNoId, OpLong, OpGetAll, OpConnections, OpSend>>
    [] OTHER -> <<>>

Docs == {"two", "hidden", "family", "clash"}

\* what armRequest can resolve to for GET .../managedApis/<apiName>?export=true:
\* the JSON null, a Swagger document at the top level, or the managed-API
\* resource, with the document embedded at properties.swagger or with none
ApiResponses ==
  {[kind |-> "null", doc |-> "none"], [kind |-> "wrapped", doc |-> "two"],
   [kind |-> "wrapped", doc |-> "none"]}
    \cup {[kind |-> "bare", doc |-> d] : d \in Docs}

\* names the registrar holds before any dynamic tool: the static tools
StaticToolNames ==
  {<<"l", "i", "s", "t", "_", "c", "o", "n", "n", "e", "c", "t", "i", "o", "n", "s">>,
   <<"p", "u", "t", "_", "c", "o", "n", "n", "e", "c", "t", "i", "o", "n">>}

\* names configureMetaTools passes to server.tool: dynamicTools.ts 320, 343
MetaToolNames ==
  {<<"l", "i", "s", "t", "_", "d", "y", "n", "a", "m", "i", "c", "_", "t", "o", "o", "l", "s">>,
   <<"r", "e", "f", "r", "e", "s", "h", "_", "t", "o", "o", "l", "s">>}

\* ------------------------------------------------------------------------
\* openApiParser.ts
\* ------------------------------------------------------------------------
\* parseOpenApiSpec(swagger): Object.entries(swagger.paths) throws a TypeError
\* when the value has no paths member
parseOpenApiSpec(swagger) ==
  IF swagger.kind = "bare"
    THEN [throws |-> FALSE, ops |-> DocOps(swagger.doc)]
    ELSE [throws |-> TRUE, ops |-> <<>>]

\* (mutant) a member of equal revision replaces the stored one as well
RECURSIVE FamilyWinnerLastTied(_, _, _, _)
FamilyWinnerLastTied(ops, fam, i, best) ==
  IF i > Len(ops) THEN best
  ELSE IF ops[i].family = fam
          /\ (best = 0 \/ ops[i].revision >= ops[best].revision)
    THEN FamilyWinnerLastTied(ops, fam, i + 1, i)
    ELSE FamilyWinnerLastTied(ops, fam, i + 1, best)

\* (mutant) a member replaces the stored one when its revision is lower
RECURSIVE FamilyWinnerLowest(_, _, _, _)
FamilyWinnerLowest(ops, fam, i, best) ==
  IF i > Len(ops) THEN best
  ELSE IF ops[i].family = fam
          /\ (best = 0 \/ ops[i].revision < ops[best].revision)
    THEN FamilyWinnerLowest(ops, fam, i + 1, i)
    ELSE FamilyWinnerLowest(ops, fam, i + 1, best)

\* the index familyMap ends up holding for family fam: lines 346-353
RECURSIVE FamilyWinner(_, _, _, _)
FamilyWinner(ops, fam, i, best) ==
  IF i > Len(ops) THEN best
  ELSE IF ops[i].family = fam
          /\ (best = 0 \/ ops[i].revision > ops[best].revision)
    THEN FamilyWinner(ops, fam, i + 1, i)
    ELSE FamilyWinner(ops, fam, i + 1, best)

\* the operations of ops from index i on whose index is in kept, in order
RECURSIVE KeepFrom(_, _, _)
KeepFrom(ops, kept, i) ==
  IF i > Len(ops) THEN <<>>
  ELSE (IF i \in kept THEN <<ops[i]>> ELSE <<>>) \o KeepFrom(ops, kept, i + 1)

deduplicateByFamily(ops) ==
  LET kept == {i \in 1..Len(ops) :
                 IF ops[i].family # NoFamily
                   THEN FamilyWinner(ops, ops[i].family, 1, 0) = i
                   ELSE ~ops[i].deprecated}
  IN KeepFrom(ops, kept, 1)

\* the path segments of the model that hold the text "$subscriptions"
SegmentsWithSubscriptions == {"$subscriptions", "all$subscriptions"}

\* op.path.includes("$subscriptions")
PathIncludesSubscriptions(path) ==
  Range(path) \cap SegmentsWithSubscriptions # {}

\* (mutant) trigger operations pass the filter
PassesFilterWithTriggers(op) ==
  /\ op.visibility # "internal"
  /\ ~PathIncludesSubscriptions(op.path)

\* the callback of ops.filter: lines 374-379
PassesFilter(op) ==
  /\ op.visibility # "internal"
  /\ ~op.isTrigger
  /\ ~PathIncludesSubscriptions(op.path)

filterOperations(ops) ==
  LET kept == {i \in 1..Len(ops) : PassesFilter(ops[i])}
  IN deduplicateByFamily(KeepFrom(ops, kept, 1))

\* ------------------------------------------------------------------------
\* State
\* ------------------------------------------------------------------------
VARIABLES
  \* --- one armRequest call (arm.ts) ---
  armPc,          \* "idle" | "loop" | "inflight" | "sleep" | "returned" | "thrown"
  calls,          \* armRequest calls made so far
  uuidCount,      \* randomUUID() invocations so far
  correlationId,  \* const correlationId of the running call
  attempt,        \* the loop variable
  elapsedMs,      \* time since fetchOptions.signal was created (saturates)
  sleepMs,        \* the delay of the pending sleep
  history,        \* one record per fetch() of the running call
  lastBody,       \* body text of the latest response
  lastError,      \* let lastError
  armResult,      \* what the call returned or threw
  fetchOptions,   \* const fetchOptions: its method and body
  \* --- module state of dynamicTools.ts, the registrar, the token provider ---
  toolRegistry,   \* const toolRegistry: tool name -> {connection, operation}
  schemaCache,    \* const schemaCache: apiName -> what fetchApiSchema stored
  registrarTools, \* names server.tool has accepted
  getsSinceClear, \* per apiName: managed-API GETs since schemaCache was last empty
  runs,           \* tool calls handled so far
  \* --- the handler that is running (one at a time) ---
  hPc,            \* position of the running handler
  hKind,          \* "startup" | "refresh" | "put"
  hTokens,        \* tokenProvider() calls of this run that resolved
  hToken,         \* const token of the running function
  hConns,         \* const connections of registerDynamicTools
  hIdx,           \* position of its for loop
  hStats,         \* the tally {registered, skipped, errors}
  hConn,          \* the connection put_connection is about
  hIncCalled,     \* registerToolsForConnection got as far as its prefix check
  hLog,           \* the ARM requests of this run, with the token each carried
  hSizeBefore,    \* toolRegistry.size when this run began
  hRegBefore,     \* toolRegistry as it was when this run began
  hOutcomes,      \* registerDynamicTools: what each loop iteration did
  hNotified,      \* notifications this run sent
  hResult,        \* what the handler returned
  prevInc,        \* the incremental registration that ran just before
  announced,      \* apiNames for which put_connection returned dynamicTools
  \* --- one invokeDynamicTool call (dynamicTools.ts) ---
  iPc,            \* "idle" | "token" | "arm" | "done" | "propagated"
  iConn,          \* conn
  iOp,            \* op
  iParams,        \* params
  iBuilt,         \* invokePath, queries and body after lines 237-273
  iRequest,       \* const request
  iFailure,       \* what was thrown inside the try, and where
  iResult,        \* what the handler returned
  \* --- one call of a function of the schema pipeline ---
  pFn,            \* the function that was called
  pIn,            \* its argument
  pOut,           \* what it returned
  \* --- two registerToolsForConnection calls in flight at once ---
  rPc,            \* per call: "start" | "token" | "fetch" | "register" | "done"
  rDoc,           \* per call: what its await fetchApiSchema gave
  rStats,         \* per call: what it returned
  rRegistry,      \* toolRegistry
  rRegistrar,     \* names server.tool has accepted
  rCache,         \* schemaCache
  rNotified,      \* notifications/tools/list_changed sent so far
  rPassed         \* the names server.tool was called with, in call order

armVars == <<armPc, calls, uuidCount, correlationId, attempt, elapsedMs,
             sleepMs, history, lastBody, lastError, armResult, fetchOptions>>

regVars == <<toolRegistry, schemaCache, registrarTools, getsSinceClear, runs>>

handlerVars == <<hPc, hKind, hTokens, hToken, hConns, hIdx, hStats, hConn, hIncCalled,
                 hLog, hSizeBefore, hRegBefore, hOutcomes, hNotified, hResult,
                 prevInc, announced>>

lifeVars == <<regVars, handlerVars>>

invVars == <<iPc, iConn, iOp, iParams, iBuilt, iRequest, iFailure, iResult>>

pureVars == <<pFn, pIn, pOut>>

raceVars == <<rPc, rDoc, rStats, rRegistry, rRegistrar, rCache, rNotified, rPassed>>

vars == <<armVars, lifeVars, invVars, pureVars, raceVars>>

NoResult == [kind |-> "none", value |-> Undefined, code |-> Undefined,
             message |-> Undefined, statusCode |-> 0]

Returned(v) == [kind |-> "value", value |-> v, code |-> Undefined,
                message |-> Undefined, statusCode |-> 0]

\* new ArmError(code, message, statusCode)
ArmError(code, message, statusCode) ==
  [kind |-> "ArmError", value |-> Undefined, code |-> code,
   message |-> message, statusCode |-> statusCode]

\* a thrown Error that is no ArmError (fetch rejection, SyntaxError)
PlainError(message) ==
  [kind |-> "Error", value |-> Undefined, code |-> Undefined,
   message |-> message, statusCode |-> 0]

\* the method and options.body of the calls of armRequest: a body is
\* supplied with each of the four methods, and a GET comes without one too
ArmRequests ==
  {[method |-> "GET", options |-> [body |-> Undefined]],
   [method |-> "GET", options |-> [body |-> "{shouldBeIgnored:true}"]],
   [method |-> "DELETE", options |-> [body |-> "{shouldBeIgnored:true}"]],
   [method |-> "PUT", options |-> [body |-> "{properties:{}}"]],
   [method |-> "POST", options |-> [body |-> "{request:{}}"]]}

\* (mutant) the body is attached whatever the method
FetchOptionsAnyMethod(method, options) ==
  [method |-> method, body |-> options.body]

\* const fetchOptions and the if that follows it: lines 78-86; body is the
\* text JSON.stringify(options.body) gives, or Undefined when none is set
FetchOptions(method, options) ==
  [method |-> method,
   body |-> IF options.body # Undefined /\ method \in {"PUT", "POST"}
              THEN options.body ELSE Undefined]

NoFetchOptions == [method |-> "", body |-> Undefined]

ArmInit ==
  /\ armPc = "idle"
  /\ calls = 0
  /\ uuidCount = 0
  /\ correlationId = 0
  /\ attempt = 0
  /\ elapsedMs = 0
  /\ sleepMs = 0
  /\ history = <<>>
  /\ lastBody = NoBody
  /\ lastError = Undefined
  /\ armResult = NoResult
  /\ fetchOptions = NoFetchOptions

\* fetchOptions.signal = AbortSignal.timeout(REQUEST_TIMEOUT_MS) is built once,
\* before the loop: every fetch() gets the signal whose clock started then.
SignalClockAtFetch(elapsed) == elapsed

SignalAborted(elapsed) == elapsed >= REQUEST_TIMEOUT_MS

\* (mutant) a correlation id drawn again for every attempt
CorrelationHeaderPerAttempt(corr, att) == corr + att

\* headers["x-ms-correlation-request-id"] of the fetch of attempt att
CorrelationHeader(corr, att) == corr

\* time passing, saturating once the signal has fired
Advance(elapsed, ms) == Min(elapsed + ms, REQUEST_TIMEOUT_MS)

\* armRequest is entered: lines 57-88
ArmCall ==
  /\ UNCHANGED <<lifeVars, invVars, pureVars, raceVars>>
  /\ armPc = "idle"
  /\ calls < MaxCalls
  /\ calls' = calls + 1
  /\ uuidCount' = uuidCount + 1
  /\ correlationId' = uuidCount + 1
  /\ attempt' = 0
  /\ elapsedMs' = 0
  /\ sleepMs' = 0
  /\ history' = <<>>
  /\ lastBody' = NoBody
  /\ lastError' = Undefined
  /\ armResult' = NoResult
  /\ \E request \in ArmRequests :
       fetchOptions' = FetchOptions(request.method, request.options)
  /\ armPc' = "loop"

\* fetch(url, fetchOptions) is called: line 94
ArmFetch ==
  /\ UNCHANGED <<lifeVars, invVars, pureVars, raceVars>>
  /\ UNCHANGED fetchOptions
  /\ armPc = "loop"
  /\ elapsedMs' = SignalClockAtFetch(elapsedMs)
  /\ history' = Append(history,
       [attempt |-> attempt,
        corr |-> CorrelationHeader(correlationId, attempt),
        abortedAtStart |-> SignalAborted(elapsedMs'),
        method |-> fetchOptions.method,
        body |-> fetchOptions.body,
        outcome |-> "pending", status |-> 0])
  /\ armPc' = "inflight"
  /\ UNCHANGED <<calls, uuidCount, correlationId, attempt, sleepMs,
                 lastBody, lastError, armResult>>

\* time passes while the fetch is in flight
ArmTick ==
  /\ UNCHANGED <<lifeVars, invVars, pureVars, raceVars>>
  /\ UNCHANGED fetchOptions
  /\ armPc = "inflight"
  /\ ~SignalAborted(elapsedMs)
  /\ elapsedMs' = Advance(elapsedMs, TickMs)
  /\ UNCHANGED <<armPc, calls, uuidCount, correlationId, attempt, sleepMs,
                 history, lastBody, lastError, armResult>>

SetOutcome(h, outcome, status) ==
  [h EXCEPT ![Len(h)].outcome = outcome, ![Len(h)].status = status]

\* the catch block, lines 126-141, for an error that is no ArmError, and the
\* throw after the loop, line 144
ArmCatch(cause, jitter) ==
  /\ lastError' = cause
  /\ IF attempt < MAX_RETRIES
       THEN /\ sleepMs' = getRetryDelay(attempt, NoHeader, jitter)
            /\ armPc' = "sleep"
            /\ armResult' = armResult
       ELSE /\ sleepMs' = sleepMs
            /\ armPc' = "thrown"
            /\ armResult' = PlainError(cause)

\* (mutant) the envelope is never read
ShapeErrorUnparsed(status, body) ==
  ArmError("UnknownError", FallbackMessage(status), status)

\* (mutant) the empty text is handed to JSON.parse as well
DecodeBodyNoEmptyCheck(text) == JsonParse(text)

\* the text of an OK response decoded: lines 97-99
DecodeBody(text) ==
  IF text = BodyEmpty
    THEN [throws |-> FALSE, val |-> "{}", hasError |-> FALSE,
          code |-> Undefined, message |-> Undefined]
    ELSE JsonParse(text)

\* the error envelope of a non-OK response: lines 112-125
ShapeError(status, body) ==
  LET parsed == JsonParse(body)
      errorCode == IF ~parsed.throws /\ parsed.hasError /\ parsed.code # Undefined
                     THEN parsed.code ELSE "UnknownError"
      errorMessage == IF ~parsed.throws /\ parsed.hasError /\ parsed.message # Undefined
                        THEN parsed.message ELSE FallbackMessage(status)
  IN ArmError(errorCode, errorMessage, status)

\* the response of the fetch arrives and is handled: lines 96-125
ArmResponse ==
  /\ UNCHANGED <<lifeVars, invVars, pureVars, raceVars>>
  /\ UNCHANGED fetchOptions
  /\ armPc = "inflight"
  /\ ~SignalAborted(elapsedMs)
  /\ \E status \in Statuses, body \in Bodies, ra \in RetryAfterHeaders,
        jitter \in Jitters :
       /\ history' = SetOutcome(history, "response", status)
       /\ IF ResponseOk(status)
            THEN IF ~DecodeBody(body).throws
                   THEN /\ armResult' = Returned(DecodeBody(body).val)
                        /\ armPc' = "returned"
                        /\ lastBody' = body
                        /\ UNCHANGED <<lastError, sleepMs>>
                   ELSE /\ ArmCatch("SyntaxError", jitter)
                        /\ lastBody' = body
            ELSE IF isRetryable(status) /\ attempt < MAX_RETRIES
                   THEN /\ sleepMs' = getRetryDelay(attempt, ra, jitter)
                        /\ armPc' = "sleep"
                        /\ lastBody' = body
                        /\ UNCHANGED <<lastError, armResult>>
                   ELSE /\ armResult' = ShapeError(status, body)
                        /\ armPc' = "thrown"
                        /\ lastBody' = body
                        /\ UNCHANGED <<lastError, sleepMs>>
  /\ UNCHANGED <<calls, uuidCount, correlationId, attempt, elapsedMs>>

\* fetch rejects below the HTTP level (DNS, reset, ...)
ArmFetchThrows ==
  /\ UNCHANGED <<lifeVars, invVars, pureVars, raceVars>>
  /\ UNCHANGED fetchOptions
  /\ armPc = "inflight"
  /\ \E jitter \in Jitters :
       /\ history' = SetOutcome(history, "throw", 0)
       /\ ArmCatch("fetch failed", jitter)
  /\ UNCHANGED <<calls, uuidCount, correlationId, attempt, elapsedMs, lastBody>>

\* fetch rejects because its signal is aborted
ArmFetchTimeout ==
  /\ UNCHANGED <<lifeVars, invVars, pureVars, raceVars>>
  /\ UNCHANGED fetchOptions
  /\ armPc = "inflight"
  /\ SignalAborted(elapsedMs)
  /\ \E jitter \in Jitters :
       /\ history' = SetOutcome(history, "timeout", 0)
       /\ ArmCatch("TimeoutError", jitter)
  /\ UNCHANGED <<calls, uuidCount, correlationId, attempt, elapsedMs, lastBody>>

\* await sleep(delay); continue  (lines 108-109, 138-139, and attempt++)
ArmSleepDone ==
  /\ UNCHANGED <<lifeVars, invVars, pureVars, raceVars>>
  /\ UNCHANGED fetchOptions
  /\ armPc = "sleep"
  /\ elapsedMs' = Advance(elapsedMs, sleepMs)
  /\ attempt' = attempt + 1
  /\ sleepMs' = 0
  /\ armPc' = "loop"
  /\ lastBody' = NoBody
  /\ UNCHANGED <<calls, uuidCount, correlationId, history,
                 lastError, armResult>>

\* the caller has taken its result: the frame of the call is gone
ArmFinish ==
  /\ UNCHANGED <<lifeVars, invVars, pureVars, raceVars>>
  /\ armPc \in {"returned", "thrown"}
  /\ calls < MaxCalls
  /\ armPc' = "idle"
  /\ correlationId' = 0
  /\ attempt' = 0
  /\ elapsedMs' = 0
  /\ sleepMs' = 0
  /\ history' = <<>>
  /\ lastBody' = NoBody
  /\ lastError' = Undefined
  /\ armResult' = NoResult
  /\ fetchOptions' = NoFetchOptions
  /\ UNCHANGED <<calls, uuidCount>>

ArmNext ==
  \/ ArmCall
  \/ ArmFetch
  \/ ArmTick
  \/ ArmResponse
  \/ ArmFetchThrows
  \/ ArmFetchTimeout
  \/ ArmSleepDone
  \/ ArmFinish

\* ------------------------------------------------------------------------
\* Lifecycle coordinator: dynamicTools.ts, connections.ts, metaTools
\* ------------------------------------------------------------------------
EmptyMap == [k \in {} |-> Undefined]

ZeroStats == [registered |-> 0, skipped |-> 0, errors |-> 0]

NoConn == ConnectionInfo("", <<>>, "")

NoHandlerResult ==
  [kind |-> "none", hasConnection |-> FALSE, hasDynamicTools |-> FALSE,
   registered |-> 0, stats |-> ZeroStats]

NoPrevInc == [valid |-> FALSE, apiName |-> <<>>, sizeAfter |-> 0, notified |-> 0,
              registered |-> 0, settled |-> FALSE]

\* no managed-API GET has been issued for any apiName
NoGets ==
  [api \in ApiNames |->
     [resolved |-> 0, stored |-> 0, what |-> [kind |-> "none", doc |-> "none"]]]

LifeInit ==
  /\ toolRegistry = EmptyMap
  /\ schemaCache = EmptyMap
  /\ registrarTools = StaticToolNames
  /\ getsSinceClear = NoGets
  /\ runs = 0
  /\ hPc = "boot"
  /\ hKind = "none"
  /\ hTokens = 0
  /\ hToken = 0
  /\ hConns = <<>>
  /\ hIdx = 0
  /\ hStats = ZeroStats
  /\ hConn = NoConn
  /\ hIncCalled = FALSE
  /\ hLog = <<>>
  /\ hSizeBefore = 0
  /\ hRegBefore = EmptyMap
  /\ hOutcomes = <<>>
  /\ hNotified = 0
  /\ hResult = NoHandlerResult
  /\ prevInc = NoPrevInc
  /\ announced = {}

\* (mutant) the registry is never consulted
HasToolNever(registry, toolName) == FALSE

\* toolRegistry.has(toolName): line 117
HasTool(registry, toolName) == toolName \in DOMAIN registry

\* the for loop of registerOps from operation i on: lines 115-131.
\* acc carries toolRegistry, the registrar's names, the two counters,
\* whether server.tool threw (it refuses a name it already holds), the
\* names in the order in which server.tool accepted them, and the names in
\* the order in which server.tool was called with them.
RECURSIVE registerOps(_, _, _, _)
registerOps(conn, ops, i, acc) ==
  IF i > Len(ops) THEN acc
  ELSE LET toolName == buildToolName(conn.apiName, ops[i].operationId) IN
    IF HasTool(acc.registry, toolName)
      THEN registerOps(conn, ops, i + 1, [acc EXCEPT !.skipped = @ + 1])
    ELSE IF toolName \in acc.registrar
      THEN [acc EXCEPT !.threw = TRUE, !.passed = Append(@, toolName)]
      ELSE registerOps(conn, ops, i + 1,
             [acc EXCEPT
                !.registrar = @ \cup {toolName},
                !.passed = Append(@, toolName),
                !.registry = (toolName :> [connection |-> conn, operation |-> ops[i]]) @@ @,
                !.order = Append(@, toolName),
                !.registered = @ + 1])

\* parseOpenApiSpec, filterOperations, registerOps on a fetched document:
\* lines 165-167 and 209-211
CompileAndRegister(conn, swagger, registry, registrar) ==
  LET start == [registry |-> registry, registrar |-> registrar,
                registered |-> 0, skipped |-> 0, threw |-> FALSE, order |-> <<>>,
                passed |-> <<>>]
      parsed == parseOpenApiSpec(swagger)
  IN IF parsed.throws
       THEN [start EXCEPT !.threw = TRUE]
       ELSE registerOps(conn, filterOperations(parsed.ops), 1, start)

\* the prefix loop of registerToolsForConnection: lines 194-200
AlreadyRegistered(registry, apiName) ==
  \E key \in DOMAIN registry : StartsWith(key, apiName \o <<"_">>)

\* (mutant) a notification whatever the count
ShouldNotifyAlways(stats) == TRUE

\* if (stats.registered > 0) sendNotification(...): line 213
ShouldNotify(stats) == stats.registered > 0

\* the body put_connection returns: connections.ts lines 55-67
PutResponseBody(toolStats) ==
  [kind |-> "ok", hasConnection |-> TRUE,
   hasDynamicTools |-> toolStats.registered > 0,
   registered |-> IF toolStats.registered > 0 THEN toolStats.registered ELSE 0,
   stats |-> toolStats]

ErrorResult == [NoHandlerResult EXCEPT !.kind = "error"]

ArmLogEntry(op, apiName, token) == [op |-> op, api |-> apiName, token |-> token]

\* (mutant) the cache is never consulted
MustFetchAlways(cache, apiName) == TRUE

\* fetchApiSchema goes to ARM unless the cache holds the apiName: lines 66-68
MustFetch(cache, apiName) == apiName \notin DOMAIN cache

\* (mutant) nothing is ever stored
CachePutNothing(cache, apiName, result) == cache

\* what fetchApiSchema stores: lines 77-80 (the JSON null is not stored)
CachePut(cache, apiName, result) ==
  IF result.kind = "null" THEN cache ELSE (apiName :> result) @@ cache

\* the bookkeeping of one managed-API GET that resolved with result
GetResolved(gets, apiName, result) ==
  [gets EXCEPT ![apiName] =
     [resolved |-> @.resolved + 1,
      stored |-> IF result.kind = "null" THEN @.stored ELSE @.stored + 1,
      what |-> IF result.kind = "null" THEN @.what ELSE result]]

\* (mutant) the scan stops at the first connection that fails
NextIndexStopOnFailure(idx, conns, failed) ==
  IF failed THEN Len(conns) + 1 ELSE idx + 1

\* the for loop goes on to the next connection, also out of its catch
NextIndex(idx, conns, failed) == idx + 1

\* what one iteration of the loop of registerDynamicTools did
ScanOutcome(kind, conn, response, done, sizeBefore) ==
  [kind |-> kind, conn |-> conn, response |-> response,
   registered |-> IF kind = "ok" THEN done.registered ELSE 0,
   skipped |-> IF kind = "ok" THEN done.skipped ELSE 0,
   added |-> Cardinality(DOMAIN done.registry) - sizeBefore,
   order |-> done.order,
   passed |-> done.passed,
   errors |-> IF kind \in {"threw", "fetch_failed"} THEN 1 ELSE 0]

NoResponse == [kind |-> "none", doc |-> "none"]

\* (mutant) refresh_tools empties the registry as well
RegistryOnRefreshCleared(registry) == EmptyMap

\* refresh_tools calls clearSchemaCache() and nothing else that clears
RegistryOnRefresh(registry) == registry

\* ---- startup scan and refresh: registerDynamicTools ----

\* configureAllTools calls registerDynamicTools once, at startup
StartupScan ==
  /\ UNCHANGED <<armVars, invVars, pureVars, raceVars>>
  /\ hPc = "boot"
  /\ hKind' = "startup"
  /\ hPc' = "scan_token"
  /\ UNCHANGED <<regVars, hTokens, hToken, hConns, hIdx, hStats, hConn,
                 hIncCalled, hLog, hSizeBefore, hRegBefore, hOutcomes,
                 hNotified, hResult, prevInc, announced>>

\* the refresh_tools handler up to its first await: metaTools lines 348-349
RefreshTools ==
  /\ UNCHANGED <<armVars, invVars, pureVars, raceVars>>
  /\ hPc = "idle"
  /\ runs < MaxRuns
  /\ runs' = runs + 1
  /\ schemaCache' = EmptyMap
  /\ getsSinceClear' = NoGets
  /\ toolRegistry' = RegistryOnRefresh(toolRegistry)
  /\ hSizeBefore' = Cardinality(DOMAIN toolRegistry)
  /\ hRegBefore' = toolRegistry
  /\ hKind' = "refresh"
  /\ hPc' = "scan_token"
  /\ prevInc' = NoPrevInc
  /\ UNCHANGED <<registrarTools, hTokens, hToken, hConns, hIdx, hStats,
                 hConn, hIncCalled, hLog, hOutcomes, hNotified, hResult,
                 announced>>

\* const token = await tokenProvider(): line 148
ScanAcquireToken ==
  /\ UNCHANGED <<armVars, invVars, pureVars, raceVars>>
  /\ hPc = "scan_token"
  /\ \E ok \in BOOLEAN :
       IF ok
         THEN /\ hTokens' = hTokens + 1
              /\ hToken' = hTokens + 1
              /\ hPc' = "scan_list"
              /\ hResult' = hResult
         ELSE /\ hPc' = "done"
              /\ hResult' = ErrorResult
              /\ UNCHANGED <<hTokens, hToken>>
  /\ UNCHANGED <<regVars, hKind, hConns, hIdx, hStats, hConn, hIncCalled,
                 hLog, hSizeBefore, hRegBefore, hOutcomes, hNotified,
                 prevInc, announced>>

\* the connection listing: lines 149-154
ScanList ==
  /\ UNCHANGED <<armVars, invVars, pureVars, raceVars>>
  /\ hPc = "scan_list"
  /\ hLog' = Append(hLog, ArmLogEntry("list", <<>>, hToken))
  /\ \/ \E listing \in Listings :
          /\ hConns' = listing
          /\ hIdx' = 1
          /\ hPc' = "scan_conn"
          /\ hResult' = hResult
     \/ /\ hPc' = "done"
        /\ hResult' = ErrorResult
        /\ UNCHANGED <<hConns, hIdx>>
  /\ UNCHANGED <<regVars, hKind, hTokens, hToken, hStats, hConn, hIncCalled,
                 hSizeBefore, hRegBefore, hOutcomes, hNotified, prevInc,
                 announced>>

\* (mutant) the scan announces what it registered, as line 213 does
ScanShouldNotifyAsIncremental(stats) == stats.registered > 0

\* the loop of registerDynamicTools has no sendNotification: after
\* registerOps it only adds up the counts (lines 167-169)
ScanShouldNotify(stats) == FALSE

\* one iteration of the for loop, with swagger what fetchApiSchema returned:
\* lines 160-174
ScanRegister(conn, swagger, cache) ==
  LET done == CompileAndRegister(conn, swagger, toolRegistry, registrarTools) IN
    /\ schemaCache' = cache
    /\ hNotified' = IF ~done.threw /\ ScanShouldNotify(done)
                      THEN hNotified + 1 ELSE hNotified
    /\ toolRegistry' = done.registry
    /\ registrarTools' = done.registrar
    /\ hStats' = IF done.threw
                   THEN [hStats EXCEPT !.errors = @ + 1]
                   ELSE [hStats EXCEPT !.registered = @ + done.registered,
                                        !.skipped = @ + done.skipped]
    /\ hOutcomes' = Append(hOutcomes,
                       ScanOutcome(IF done.threw THEN "threw" ELSE "ok", conn,
                                   swagger, done, Cardinality(DOMAIN toolRegistry)))
    /\ hIdx' = NextIndex(hIdx, hConns, done.threw)

\* an iteration that registers nothing: no document (continue, line 162) or
\* a failed fetch (the catch, lines 170-174)
ScanSkip(kind, conn, response) ==
  /\ hOutcomes' = Append(hOutcomes,
                     ScanOutcome(kind, conn, response,
                                 [registry |-> toolRegistry, order |-> <<>>,
                                  passed |-> <<>>],
                                 Cardinality(DOMAIN toolRegistry)))
  /\ hStats' = IF kind = "fetch_failed"
                 THEN [hStats EXCEPT !.errors = @ + 1] ELSE hStats
  /\ hIdx' = NextIndex(hIdx, hConns, kind = "fetch_failed")
  /\ UNCHANGED <<toolRegistry, schemaCache, registrarTools, hNotified>>

\* (mutant) the listing is walked from its end
ConnAtFromEnd(conns, idx) == conns[Len(conns) - idx + 1]

\* for (const conn of connections): the connection of iteration idx
ConnAt(conns, idx) == conns[idx]

\* one connection of the listing: lines 156-175
ScanConn ==
  /\ UNCHANGED <<armVars, invVars, pureVars, raceVars>>
  /\ hPc = "scan_conn"
  /\ hIdx <= Len(hConns)
  /\ LET conn == ConnAt(hConns, hIdx) IN
       IF ~MustFetch(schemaCache, conn.apiName)
         THEN /\ ScanRegister(conn, schemaCache[conn.apiName], schemaCache)
              /\ UNCHANGED <<hLog, getsSinceClear>>
         ELSE /\ hLog' = Append(hLog, ArmLogEntry("schema", conn.apiName, hToken))
              /\ \/ \E result \in ApiResponses :
                      /\ getsSinceClear' =
                           GetResolved(getsSinceClear, conn.apiName, result)
                      /\ IF result.kind = "null"
                           THEN ScanSkip("nodoc", conn, result)
                           ELSE ScanRegister(conn, result,
                                             CachePut(schemaCache, conn.apiName, result))
                 \/ /\ ScanSkip("fetch_failed", conn, NoResponse)
                    /\ UNCHANGED getsSinceClear
  /\ UNCHANGED <<runs, hPc, hKind, hTokens, hToken, hConns, hConn,
                 hIncCalled, hSizeBefore, hRegBefore, hResult,
                 prevInc, announced>>

\* return { registered, skipped, errors }: lines 177-178
ScanReturn ==
  /\ UNCHANGED <<armVars, invVars, pureVars, raceVars>>
  /\ hPc = "scan_conn"
  /\ hIdx > Len(hConns)
  /\ hResult' = [NoHandlerResult EXCEPT !.kind = "ok", !.stats = hStats]
  /\ hPc' = "done"
  /\ UNCHANGED <<regVars, hKind, hTokens, hToken, hConns, hIdx, hStats,
                 hConn, hIncCalled, hLog, hSizeBefore, hRegBefore, hOutcomes,
                 hNotified, prevInc, announced>>

\* ---- put_connection and registerToolsForConnection ----

PutTargets == {ConnList, ConnListB, ConnListV2}

\* the put_connection handler up to its first await: connections.ts line 26
PutConnection ==
  /\ UNCHANGED <<armVars, invVars, pureVars, raceVars>>
  /\ hPc = "idle"
  /\ runs < MaxRuns
  /\ runs' = runs + 1
  /\ \E target \in PutTargets : hConn' = target
  /\ hSizeBefore' = Cardinality(DOMAIN toolRegistry)
  /\ hRegBefore' = toolRegistry
  /\ hKind' = "put"
  /\ hPc' = "put_token"
  /\ UNCHANGED <<toolRegistry, schemaCache, registrarTools, getsSinceClear,
                 hTokens, hToken, hConns, hIdx, hStats, hIncCalled, hLog,
                 hOutcomes, hNotified, hResult, prevInc, announced>>

\* const token = await tokenProvider(): connections.ts line 26
PutAcquireToken ==
  /\ UNCHANGED <<armVars, invVars, pureVars, raceVars>>
  /\ hPc = "put_token"
  /\ \E ok \in BOOLEAN :
       IF ok
         THEN /\ hTokens' = hTokens + 1
              /\ hToken' = hTokens + 1
              /\ hPc' = "put_arm"
              /\ hResult' = hResult
         ELSE /\ hPc' = "done"
              /\ hResult' = ErrorResult
              /\ UNCHANGED <<hTokens, hToken>>
  /\ UNCHANGED <<regVars, hKind, hConns, hIdx, hStats, hConn, hIncCalled,
                 hLog, hSizeBefore, hRegBefore, hOutcomes, hNotified,
                 prevInc, announced>>

\* (mutant) a failed registration turns the answer into an error
PutFinishErrorOnFailure(stats) ==
  /\ hStats' = stats
  /\ hResult' = IF stats.errors > 0 THEN ErrorResult ELSE PutResponseBody(stats)
  /\ hPc' = "done"

\* registerToolsForConnection returns stats: put_connection builds its body
PutFinish(stats) ==
  /\ hStats' = stats
  /\ hResult' = PutResponseBody(stats)
  /\ hPc' = "done"

\* the PUT, and registerToolsForConnection up to its first await:
\* connections.ts lines 40-50, dynamicTools.ts lines 190-202
PutArm ==
  /\ UNCHANGED <<armVars, invVars, pureVars, raceVars>>
  /\ hPc = "put_arm"
  /\ hLog' = Append(hLog, ArmLogEntry("put", hConn.apiName, hToken))
  /\ \/ \* armRequest throws: the outer catch answers with an error
        /\ hPc' = "done"
        /\ hResult' = ErrorResult
        /\ UNCHANGED <<hStats, hIncCalled>>
     \/ \* the answer has no properties.api: extractConnectionInfo throws
        /\ PutFinish([ZeroStats EXCEPT !.errors = 1])
        /\ UNCHANGED hIncCalled
     \/ \* the answer is the connection resource
        /\ hIncCalled' = TRUE
        /\ IF AlreadyRegistered(toolRegistry, hConn.apiName)
             THEN PutFinish(ZeroStats)
             ELSE /\ hPc' = "inc_token"
                  /\ UNCHANGED <<hStats, hResult>>
  /\ UNCHANGED <<regVars, hKind, hTokens, hToken, hConns, hIdx, hConn,
                 hSizeBefore, hRegBefore, hOutcomes, hNotified, prevInc,
                 announced>>

\* registerToolsForConnection from the document on: lines 204-217
IncRegister(swagger, cache) ==
  LET done == CompileAndRegister(hConn, swagger, toolRegistry, registrarTools)
      stats == [registered |-> done.registered, skipped |-> done.skipped,
                errors |-> 0]
      notify == ~done.threw /\ ShouldNotify(stats)
  IN /\ schemaCache' = cache
     /\ toolRegistry' = done.registry
     /\ registrarTools' = done.registrar
     /\ hNotified' = IF notify THEN hNotified + 1 ELSE hNotified
     /\ IF done.threw
          THEN PutFinish([ZeroStats EXCEPT !.errors = 1])
          ELSE PutFinish(stats)

\* const token = await tokenProvider(), and fetchApiSchema when the cache
\* holds the document: lines 202-203
IncAcquireToken ==
  /\ UNCHANGED <<armVars, invVars, pureVars, raceVars>>
  /\ hPc = "inc_token"
  /\ \E ok \in BOOLEAN :
       IF ~ok
         THEN /\ PutFinish([ZeroStats EXCEPT !.errors = 1])
              /\ UNCHANGED <<toolRegistry, schemaCache, registrarTools,
                             hTokens, hToken, hNotified>>
         ELSE /\ hTokens' = hTokens + 1
              /\ hToken' = hTokens + 1
              /\ IF MustFetch(schemaCache, hConn.apiName)
                   THEN /\ hPc' = "inc_fetch"
                        /\ UNCHANGED <<toolRegistry, schemaCache, registrarTools,
                                       hNotified, hStats,
                                       hResult>>
                   ELSE IncRegister(schemaCache[hConn.apiName], schemaCache)
  /\ UNCHANGED <<getsSinceClear, runs, hKind, hConns, hIdx, hConn,
                 hIncCalled, hLog, hSizeBefore, hRegBefore, hOutcomes,
                 prevInc, announced>>

\* the managed-API GET of fetchApiSchema answers: lines 72-87, 204-222
IncFetch ==
  /\ UNCHANGED <<armVars, invVars, pureVars, raceVars>>
  /\ hPc = "inc_fetch"
  /\ hLog' = Append(hLog, ArmLogEntry("schema", hConn.apiName, hToken))
  /\ \/ \E result \in ApiResponses :
          /\ getsSinceClear' = GetResolved(getsSinceClear, hConn.apiName, result)
          /\ IF result.kind = "null"
               THEN /\ PutFinish(ZeroStats)
                    /\ UNCHANGED <<toolRegistry, schemaCache, registrarTools,
                                   hNotified>>
               ELSE IncRegister(result, CachePut(schemaCache, hConn.apiName, result))
     \/ /\ PutFinish([ZeroStats EXCEPT !.errors = 1])
        /\ UNCHANGED <<toolRegistry, schemaCache, registrarTools, hNotified,
                       getsSinceClear>>
  /\ UNCHANGED <<runs, hKind, hTokens, hToken, hConns, hIdx, hConn,
                 hIncCalled, hSizeBefore, hRegBefore, hOutcomes, prevInc,
                 announced>>

\* a registered dynamic tool is called: invokeDynamicTool reads its
\* (conn, op) and none of the module state (lines 227-305)
InvokeRegistered ==
  /\ UNCHANGED <<armVars, invVars, pureVars, raceVars>>
  /\ hPc = "idle"
  /\ runs < MaxRuns
  /\ DOMAIN toolRegistry # {}
  /\ runs' = runs + 1
  /\ UNCHANGED <<toolRegistry, schemaCache, registrarTools, getsSinceClear>>
  /\ UNCHANGED handlerVars

\* the handler has answered; its frame is gone
\* (mutant) a scan that threw makes configureAllTools reject
AfterStartupScanRethrown(result) ==
  IF result.kind = "error" THEN "rejected" ELSE "meta"

\* the try/catch of configureAllTools around registerDynamicTools: whether
\* the scan returned or threw, control reaches configureMetaTools
AfterStartupScan(result) == "meta"

\* configureAllTools after its await: the catch, then configureMetaTools,
\* whose server.tool calls throw on a name the registrar already holds
ConfigureMetaTools ==
  /\ UNCHANGED <<armVars, invVars, pureVars, raceVars>>
  /\ hPc = "done"
  /\ hKind = "startup"
  /\ IF AfterStartupScan(hResult) = "meta" /\ MetaToolNames \cap registrarTools = {}
       THEN /\ registrarTools' = registrarTools \cup MetaToolNames
            /\ hPc' = "configured"
       ELSE /\ registrarTools' = registrarTools
            /\ hPc' = "rejected"
  /\ UNCHANGED <<toolRegistry, schemaCache, getsSinceClear, runs, hKind,
                 hTokens, hToken, hConns, hIdx, hStats, hConn, hIncCalled,
                 hLog, hSizeBefore, hRegBefore, hOutcomes, hNotified, hResult,
                 prevInc, announced>>

HandlerReturn ==
  /\ UNCHANGED <<armVars, invVars, pureVars, raceVars>>
  /\ \/ hPc = "done" /\ hKind # "startup"
     \/ hPc = "configured"
  /\ hPc' = "idle"
  /\ prevInc' = IF hKind = "put" /\ hIncCalled
                  THEN [valid |-> TRUE, apiName |-> hConn.apiName,
                        sizeAfter |-> Cardinality(DOMAIN toolRegistry),
                        notified |-> hNotified,
                        registered |-> hResult.stats.registered,
                        settled |-> \/ AlreadyRegistered(toolRegistry, hConn.apiName)
                                    \/ hConn.apiName \in DOMAIN schemaCache]
                  ELSE NoPrevInc
  /\ hKind' = "none"
  /\ hTokens' = 0
  /\ hToken' = 0
  /\ hConns' = <<>>
  /\ hIdx' = 0
  /\ hStats' = ZeroStats
  /\ hConn' = NoConn
  /\ hIncCalled' = FALSE
  /\ hLog' = <<>>
  /\ hSizeBefore' = 0
  /\ hRegBefore' = EmptyMap
  /\ hOutcomes' = <<>>
  /\ announced' = IF hKind = "put" /\ hResult.hasDynamicTools
                    THEN announced \cup {hConn.apiName} ELSE announced
  /\ hNotified' = 0
  /\ hResult' = NoHandlerResult
  /\ UNCHANGED regVars

LifeNext ==
  \/ StartupScan
  \/ RefreshTools
  \/ ScanAcquireToken
  \/ ScanList
  \/ ScanConn
  \/ ScanReturn
  \/ PutConnection
  \/ PutAcquireToken
  \/ PutArm
  \/ IncAcquireToken
  \/ IncFetch
  \/ InvokeRegistered
  \/ ConfigureMetaTools
  \/ HandlerReturn

\* ------------------------------------------------------------------------
\* zodGenerator.ts: sanitizeKey and the keys of generateZodSchema
\* ------------------------------------------------------------------------
SafeChars == Uppers \cup Lowers \cup Digits \cup {"_", ".", "-"}

\* name.replace(/[^a-zA-Z0-9_.-]/g, "_")
ReplaceUnsafe(name) ==
  [i \in DOMAIN name |-> IF name[i] \in SafeChars THEN name[i] ELSE "_"]

\* (mutant) only one leading dot or hyphen is removed
StripLeadingOne(str) ==
  IF str # <<>> /\ Head(str) \in {".", "-"} THEN Tail(str) ELSE str

\* safe.replace(/^[.-]+/, "")
RECURSIVE StripLeading(_)
StripLeading(str) ==
  IF str # <<>> /\ Head(str) \in {".", "-"} THEN StripLeading(Tail(str)) ELSE str

\* safe.replace(/_+/g, "_")
RECURSIVE CollapseUnderscores(_)
CollapseUnderscores(str) ==
  IF Len(str) < 2 THEN str
  ELSE IF str[1] = "_" /\ str[2] = "_" THEN CollapseUnderscores(Tail(str))
  ELSE <<str[1]>> \o CollapseUnderscores(Tail(str))

\* safe.slice(0, 64)
Slice64(str) == SubSeq(str, 1, Min(64, Len(str)))

sanitizeKey(name) ==
  LET safe == Slice64(CollapseUnderscores(StripLeading(ReplaceUnsafe(name))))
  IN IF safe = <<>> THEN <<"p", "a", "r", "a", "m">> ELSE safe

BodyPrefix == <<"b", "o", "d", "y", "_">>

NameConnectionId == <<"c", "o", "n", "n", "e", "c", "t", "i", "o", "n", "I", "d">>
NameId == <<"i", "d">>
NameFilter == <<"$", "f", "i", "l", "t", "e", "r">>
NameSubject == <<"s", "u", "b", "j", "e", "c", "t">>
NameFile == <<"f", "i", "l", "e">>

\* ParsedParameter and ParsedBodyProperty, as far as the generator and the
\* invocation read them
Parameter(name, in, type) == [name |-> name, in |-> in, type |-> type]
BodyProperty(name, type, format) == [name |-> name, type |-> type, format |-> format]

\* the key-by-key effect of the first loop of generateZodSchema: lines 96-100
RECURSIVE SchemaOfParams(_, _, _)
SchemaOfParams(params, i, result) ==
  IF i > Len(params) THEN result
  ELSE IF params[i].name = NameConnectionId
    THEN SchemaOfParams(params, i + 1, result)
    ELSE LET key == sanitizeKey(params[i].name)
             entry == [from |-> "param", name |-> params[i].name,
                       type |-> params[i].type]
         IN SchemaOfParams(params, i + 1,
              [k \in DOMAIN result \cup {key} |->
                 IF k = key THEN entry ELSE result[k]])

NameConstructor == <<"c", "o", "n", "s", "t", "r", "u", "c", "t", "o", "r">>
NameToString == <<"t", "o", "S", "t", "r", "i", "n", "g">>

\* names the in operator finds in every object literal, through
\* Object.prototype (those the model's operations use)
InheritedKeys == {NameConstructor, NameToString}

\* sanitized in result
InResult(sanitized, result) ==
  sanitized \in DOMAIN result \cup InheritedKeys

\* const key = sanitized in result ? `body_${sanitized}` : sanitized
BodyKey(sanitized, result) ==
  IF InResult(sanitized, result) THEN BodyPrefix \o sanitized ELSE sanitized

\* the second loop: lines 104-109 (the body properties in Object.entries order)
RECURSIVE SchemaOfBody(_, _, _)
SchemaOfBody(props, i, result) ==
  IF i > Len(props) THEN result
  ELSE IF props[i].format = "binary"
    THEN SchemaOfBody(props, i + 1, result)
    ELSE LET sanitized == sanitizeKey(props[i].name)
             key == BodyKey(sanitized, result)
             entry == [from |-> "body", name |-> props[i].name,
                       type |-> props[i].type]
         IN SchemaOfBody(props, i + 1,
              [k \in DOMAIN result \cup {key} |->
                 IF k = key THEN entry ELSE result[k]])

\* generateZodSchema(op): input key -> which parameter or property it is
generateZodSchema(op) ==
  LET afterParams == SchemaOfParams(op.parameters, 1, EmptyMap)
  IN IF op.hasRequestBody
       THEN SchemaOfBody(op.properties, 1, afterParams)
       ELSE afterParams

\* ------------------------------------------------------------------------
\* invokeDynamicTool: dynamicTools.ts lines 227-305
\* ------------------------------------------------------------------------
\* a path is the sequence of its "/"-separated pieces: a {name} placeholder
\* or literal text
Placeholder(name) == [ph |-> TRUE, name |-> name, text |-> ""]
Literal(text) == [ph |-> FALSE, name |-> <<>>, text |-> text]

ParsedOp(operationId, method, path, parameters, hasRequestBody, properties) ==
  [operationId |-> operationId, method |-> method, path |-> path,
   parameters |-> parameters, hasRequestBody |-> hasRequestBody,
   properties |-> properties]

\* GET /{connectionId}/items/{id}?$filter=
OpGetItem ==
  ParsedOp("GetItem", "get",
           <<Placeholder(NameConnectionId), Literal("items"), Placeholder(NameId)>>,
           <<Parameter(NameConnectionId, "path", "string"),
             Parameter(NameId, "path", "string"),
             Parameter(NameFilter, "query", "string")>>,
           FALSE, <<>>)

\* GET /{connectionId}/{id}/copies/{id}
OpCopies ==
  ParsedOp("Copies", "get",
           <<Placeholder(NameConnectionId), Placeholder(NameId),
             Literal("copies"), Placeholder(NameId)>>,
           <<Parameter(NameConnectionId, "path", "string"),
             Parameter(NameId, "path", "string")>>,
           FALSE, <<>>)

\* POST /{connectionId}/items with body {subject, file (binary)}
OpPostItem ==
  ParsedOp("PostItem", "post",
           <<Placeholder(NameConnectionId), Literal("items")>>,
           <<Parameter(NameConnectionId, "path", "string")>>,
           TRUE,
           <<BodyProperty(NameSubject, "string", ""),
             BodyProperty(NameFile, "string", "binary")>>)

\* POST /{connectionId}/items?id= with body {id, subject}
OpPostWithId ==
  ParsedOp("PostWithId", "post",
           <<Placeholder(NameConnectionId), Literal("items")>>,
           <<Parameter(NameConnectionId, "path", "string"),
             Parameter(NameId, "query", "string")>>,
           TRUE,
           <<BodyProperty(NameId, "string", ""),
             BodyProperty(NameSubject, "object", "")>>)

NameIfMatch == <<"I", "f", "-", "M", "a", "t", "c", "h">>

\* GET /{connectionId}/items/{id} with header If-Match
OpGetWithHeader ==
  ParsedOp("GetWithHeader", "get",
           <<Placeholder(NameConnectionId), Literal("items"), Placeholder(NameId)>>,
           <<Parameter(NameConnectionId, "path", "string"),
             Parameter(NameId, "path", "string"),
             Parameter(NameIfMatch, "header", "string")>>,
           FALSE, <<>>)

\* POST /{connectionId}/items with header id and body {id}
OpPostWithHeader ==
  ParsedOp("PostWithHeader", "post",
           <<Placeholder(NameConnectionId), Literal("items")>>,
           <<Parameter(NameConnectionId, "path", "string"),
             Parameter(NameId, "header", "string")>>,
           TRUE,
           <<BodyProperty(NameId, "string", "")>>)

InvokeOps ==
  {OpGetItem, OpCopies, OpPostItem, OpPostWithId, OpGetWithHeader, OpPostWithHeader}

\* values a caller can supply: strings for string keys, an object for
\* object keys
StringValues == {"42", "$&", "$$"}
ObjectValues == {"{k:1}"}

ValuesOfType(type) == IF type = "object" THEN ObjectValues ELSE StringValues

\* the parameter maps the generated schema accepts; the operations above
\* declare no parameter or property as required, so every key is optional
ParamMaps(op) ==
  LET schema == generateZodSchema(op)
  IN UNION {{p \in [keys -> StringValues \cup ObjectValues] :
               \A k \in keys : p[k] \in ValuesOfType(schema[k].type)} :
            keys \in SUBSET DOMAIN schema}

\* what replace() puts in for replacement text val when it matched piece:
\* "$&" stands for the matched text and "$$" for "$"
Substitution(val, matched) ==
  CASE val = "$&" -> matched
    [] val = "$$" -> Literal("$")
    [] OTHER -> Literal(val)

\* invokePath.replace(`{${param.name}}`, String(val)): the first occurrence
ReplaceFirst(path, name, val) ==
  LET hits == {i \in DOMAIN path : path[i] = Placeholder(name)}
  IN IF hits = {} THEN path
     ELSE LET first == CHOOSE i \in hits : \A j \in hits : i <= j
          IN [path EXCEPT ![first] = Substitution(val, path[first])]

\* (mutant) the path is taken as the operation declares it
StripConnectionIdKept(path) == path

\* op.path.replace(/^\/{connectionId}/, "")
StripConnectionId(path) ==
  IF path # <<>> /\ path[1] = Placeholder(NameConnectionId) THEN Tail(path) ELSE path

\* the loop over op.parameters: lines 241-252
RECURSIVE BuildParams(_, _, _, _)
BuildParams(parameters, params, i, acc) ==
  IF i > Len(parameters) THEN acc
  ELSE LET param == parameters[i]
           sanitized == sanitizeKey(param.name)
       IN IF param.name = NameConnectionId \/ sanitized \notin DOMAIN params
            THEN BuildParams(parameters, params, i + 1, acc)
          ELSE IF param.in = "path"
            THEN BuildParams(parameters, params, i + 1,
                   [acc EXCEPT !.path = ReplaceFirst(@, param.name, params[sanitized])])
          ELSE IF param.in = "query"
            THEN BuildParams(parameters, params, i + 1,
                   [acc EXCEPT !.queries =
                      [k \in DOMAIN @ \cup {param.name} |->
                         IF k = param.name THEN params[sanitized] ELSE @[k]]])
          ELSE BuildParams(parameters, params, i + 1, acc)

\* params[sanitized] ?? params[`body_${sanitized}`]: the key that is read
BodyInputKey(params, sanitized) ==
  IF sanitized \in DOMAIN params THEN sanitized ELSE BodyPrefix \o sanitized

\* the loop over op.requestBody.properties: lines 258-272
RECURSIVE BuildBody(_, _, _, _)
BuildBody(properties, params, i, body) ==
  IF i > Len(properties) THEN body
  ELSE LET name == properties[i].name
           key == BodyInputKey(params, sanitizeKey(name))
       IN IF key \notin DOMAIN params
            THEN BuildBody(properties, params, i + 1, body)
            ELSE BuildBody(properties, params, i + 1,
                   [k \in DOMAIN body \cup {name} |->
                      IF k = name THEN params[key] ELSE body[k]])

\* invokePath, queries and body as they stand at line 273
BuildParts(op, params) ==
  LET start == [path |-> StripConnectionId(op.path), queries |-> EmptyMap]
      done == BuildParams(op.parameters, params, 1, start)
  IN [path |-> done.path, queries |-> done.queries,
      bodyDefined |-> op.hasRequestBody,
      body |-> IF op.hasRequestBody
                 THEN BuildBody(op.properties, params, 1, EmptyMap)
                 ELSE EmptyMap]

MethodUpper(method) ==
  CASE method = "get" -> "GET" [] method = "post" -> "POST"
    [] method = "put" -> "PUT" [] OTHER -> "DELETE"

\* const request: lines 278-288
BuildRequest(op, parts) ==
  LET withBody == parts.bodyDefined /\ DOMAIN parts.body # {}
  IN [method |-> MethodUpper(op.method), path |-> parts.path,
      hasHeaders |-> withBody,
      headers |-> IF withBody THEN {"Content-Type"} ELSE {},
      hasBody |-> withBody,
      body |-> IF withBody THEN parts.body ELSE EmptyMap,
      hasQueries |-> DOMAIN parts.queries # {},
      queries |-> parts.queries]

NoOp == ParsedOp("", "get", <<>>, <<>>, FALSE, <<>>)
NoParts == [path |-> <<>>, queries |-> EmptyMap, bodyDefined |-> FALSE,
            body |-> EmptyMap]
NoRequest == BuildRequest(NoOp, NoParts)
NoFailure == [stage |-> "none", message |-> ""]
NoInvokeResult == [returned |-> FALSE, isError |-> FALSE, text |-> <<>>]

\* `Error invoking ${conn.apiName}/${op.operationId}: ${msg}`: line 301
ErrorText(conn, op, msg) ==
  <<"Error invoking ", conn.apiName, "/", op.operationId, ": ", msg>>

\* what armRequest can resolve to for the dynamicInvoke POST
InvokeAnswers == {"{response:{body:{id:1}}}", "{}", "null"}

\* JSON.stringify(result?.response?.body ?? result): line 296
ResultText(answer) ==
  IF answer = "{response:{body:{id:1}}}" THEN <<"{id:1}">> ELSE <<answer>>

\* messages of what tokenProvider or armRequest can throw
ThrownMessages == {"Token expired", "Forbidden"}

InvokeInit ==
  /\ iPc = "idle"
  /\ iConn = NoConn
  /\ iOp = NoOp
  /\ iParams = EmptyMap
  /\ iBuilt = NoParts
  /\ iRequest = NoRequest
  /\ iFailure = NoFailure
  /\ iResult = NoInvokeResult

\* (mutant) the try begins after the token has been acquired
InsideTryAfterToken(stage) == stage # "token"

\* the try block spans lines 235-298: every stage is inside it
InsideTry(stage) == TRUE

\* something threw at stage: the catch of lines 298-304 answers, unless the
\* throw was outside the try
InvokeThrow(stage, msg) ==
  /\ iFailure' = [stage |-> stage, message |-> msg]
  /\ IF InsideTry(stage)
       THEN /\ iPc' = "done"
            /\ iResult' = [returned |-> TRUE, isError |-> TRUE,
                           text |-> ErrorText(iConn, iOp, msg)]
       ELSE /\ iPc' = "propagated"
            /\ iResult' = iResult

\* the handler is called and builds path, queries and body: lines 237-273
InvokeCall ==
  /\ UNCHANGED <<armVars, lifeVars, pureVars, raceVars>>
  /\ iPc = "idle"
  /\ \E conn \in {ConnList, ConnListB}, op \in InvokeOps :
       \E params \in ParamMaps(op) :
         /\ iConn' = conn
         /\ iOp' = op
         /\ iParams' = params
         /\ iBuilt' = BuildParts(op, params)
  /\ iPc' = "token"
  /\ iRequest' = NoRequest
  /\ iFailure' = NoFailure
  /\ iResult' = NoInvokeResult

\* const token = await tokenProvider(), then const request: lines 275-288
InvokeToken ==
  /\ UNCHANGED <<armVars, lifeVars, pureVars, raceVars>>
  /\ iPc = "token"
  /\ \/ /\ iRequest' = BuildRequest(iOp, iBuilt)
        /\ iPc' = "arm"
        /\ UNCHANGED <<iFailure, iResult>>
     \/ /\ \E msg \in ThrownMessages : InvokeThrow("token", msg)
        /\ UNCHANGED iRequest
  /\ UNCHANGED <<iConn, iOp, iParams, iBuilt>>

\* await armRequest("POST", dynamicPath, ...) and the return: lines 290-297
InvokeArm ==
  /\ UNCHANGED <<armVars, lifeVars, pureVars, raceVars>>
  /\ iPc = "arm"
  /\ \/ /\ \E answer \in InvokeAnswers :
             iResult' = [returned |-> TRUE, isError |-> FALSE,
                         text |-> ResultText(answer)]
        /\ iPc' = "done"
        /\ UNCHANGED iFailure
     \/ \E msg \in ThrownMessages : InvokeThrow("arm", msg)
  /\ UNCHANGED <<iConn, iOp, iParams, iBuilt, iRequest>>

\* the result has gone to the caller; the frame is gone
InvokeFinish ==
  /\ UNCHANGED <<armVars, lifeVars, pureVars, raceVars>>
  /\ iPc = "done"
  /\ iPc' = "idle"
  /\ iConn' = NoConn
  /\ iOp' = NoOp
  /\ iParams' = EmptyMap
  /\ iBuilt' = NoParts
  /\ iRequest' = NoRequest
  /\ iFailure' = NoFailure
  /\ iResult' = NoInvokeResult

InvokeNext ==
  \/ InvokeCall
  \/ InvokeToken
  \/ InvokeArm
  \/ InvokeFinish

\* ------------------------------------------------------------------------
\* The functions of the schema pipeline, called on their own
\* ------------------------------------------------------------------------
MaxKeyLen == 3

\* characters of parameter names: letters, a digit, the three safe marks
\* and two that are outside [a-zA-Z0-9_.-]
KeyAlphabet == {"a", "Z", "7", "_", ".", "-", "$", " "}

\* 63 more characters, to take a name past the 64 of slice(0, 64)
LongTail == [i \in 1..63 |-> "x"]

KeyInputs ==
  LET short == UNION {[1..n -> KeyAlphabet] : n \in 0..MaxKeyLen}
  IN short \cup {x \o LongTail : x \in short}

MaxOps == 3

\* the operations the lists handed to the filter and to the family
\* deduplication are made of
OperationPool ==
  {OpSend, OpHook, OpPoll, OpSub, OpSubAll, OpOld, OpAdvanced,
   OpDel, OpDelV2, OpDelV2b, OpMove, OpMoveOld}

OperationLists == UNION {[1..n -> OperationPool] : n \in 0..MaxOps}

MaxProps == 2

NameDollarId == <<"$", "i", "d">>
NameUnderscoreId == <<"_", "i", "d">>
NameBodyId == BodyPrefix \o NameId

\* the parameter lists and the body properties of the operations handed to
\* generateZodSchema
ParameterLists ==
  {<<>>,
   <<Parameter(NameConnectionId, "path", "string")>>,
   <<Parameter(NameConnectionId, "path", "string"), Parameter(NameId, "path", "integer")>>,
   <<Parameter(NameId, "query", "integer"), Parameter(NameDollarId, "query", "boolean")>>,
   <<Parameter(NameId, "query", "integer"), Parameter(NameBodyId, "query", "boolean")>>}

PropertyPool ==
  {BodyProperty(NameId, "string", ""), BodyProperty(NameDollarId, "string", ""),
   BodyProperty(NameUnderscoreId, "number", ""), BodyProperty(NameSubject, "object", ""),
   BodyProperty(NameFile, "string", "binary"), BodyProperty(NameBodyId, "array", ""),
   BodyProperty(NameConstructor, "string", "")}

PropertyLists == UNION {[1..n -> PropertyPool] : n \in 0..MaxProps}

SchemaOps ==
  {ParsedOp("Op", "post", <<Placeholder(NameConnectionId)>>, parameters, TRUE, properties) :
     parameters \in ParameterLists, properties \in PropertyLists}
  \cup {ParsedOp("Op", "get", <<Placeholder(NameConnectionId)>>, parameters, FALSE, <<>>) :
          parameters \in ParameterLists}

\* one entry of an operation's parameters array in the Swagger document: a
\* member the entry does not have is Undefined, and required, when there,
\* is the JSON true or false
RawParameter(ref, name, in, type, required, description) ==
  [ref |-> ref, name |-> name, in |-> in, type |-> type,
   required |-> required, description |-> description]

RefEntry(ref) ==
  RawParameter(ref, Undefined, Undefined, Undefined, Undefined, Undefined)

RawConnectionId == RawParameter(Undefined, "connectionId", "path", "string", "true", Undefined)
RawTop == RawParameter(Undefined, "$top", "query", "integer", Undefined, "Page size")
RawMessage == RawParameter(Undefined, "message", "body", Undefined, "true", Undefined)

\* the document's shared parameters section
SharedParameters ==
  [ref \in {"#/parameters/orderby", "#/parameters/apiVersion"} |->
     IF ref = "#/parameters/orderby"
       THEN RawParameter(Undefined, "$orderby", "query", "string", "false",
                         "OData order by expression")
       ELSE RawParameter(Undefined, "api-version", "query", "string", "true",
                         "Version of the API")]

RawParameterPool ==
  {RawConnectionId, RawTop, RawMessage,
   RefEntry("#/parameters/orderby"), RefEntry("#/parameters/apiVersion")}

MaxParams == 3

RawParameterLists == UNION {[1..n -> RawParameterPool] : n \in 0..MaxParams}

\* const p: ParsedParameter = {...}: lines 285-291
ParsedParameterOf(param) ==
  [name |-> param.name,
   in |-> param.in,
   type |-> IF param.type = Undefined THEN "string" ELSE param.type,
   required |-> param.required = "true",
   description |-> IF param.description = Undefined THEN "" ELSE param.description]

\* the loop over op.parameters ?? []: lines 274-307; an entry with in ===
\* "body" becomes the request body, every other entry is read as it stands
RECURSIVE parseParameters(_, _)
parseParameters(raw, i) ==
  IF i > Len(raw) THEN <<>>
  ELSE IF raw[i].in = "body" THEN parseParameters(raw, i + 1)
  ELSE <<ParsedParameterOf(raw[i])>> \o parseParameters(raw, i + 1)

PureInit ==
  /\ pFn = "none"
  /\ pIn = <<>>
  /\ pOut = <<>>

\* sanitizeKey(name)
CallSanitizeKey ==
  /\ UNCHANGED <<armVars, lifeVars, invVars, raceVars>>
  /\ pFn = "none"
  /\ \E name \in KeyInputs :
       /\ pIn' = name
       /\ pOut' = sanitizeKey(name)
  /\ pFn' = "sanitizeKey"

\* filterOperations(ops)
CallFilterOperations ==
  /\ UNCHANGED <<armVars, lifeVars, invVars, raceVars>>
  /\ pFn = "none"
  /\ \E ops \in OperationLists :
       /\ pIn' = ops
       /\ pOut' = filterOperations(ops)
  /\ pFn' = "filterOperations"

\* deduplicateByFamily(ops)
CallDeduplicateByFamily ==
  /\ UNCHANGED <<armVars, lifeVars, invVars, raceVars>>
  /\ pFn = "none"
  /\ \E ops \in OperationLists :
       /\ pIn' = ops
       /\ pOut' = deduplicateByFamily(ops)
  /\ pFn' = "deduplicateByFamily"

\* generateZodSchema(op)
CallGenerateZodSchema ==
  /\ UNCHANGED <<armVars, lifeVars, invVars, raceVars>>
  /\ pFn = "none"
  /\ \E op \in SchemaOps :
       /\ pIn' = op
       /\ pOut' = generateZodSchema(op)
  /\ pFn' = "generateZodSchema"

\* parseOpenApiSpec on a document with one operation whose parameters
\* array is raw: the parameters of the parsed operation
CallParseParameters ==
  /\ UNCHANGED <<armVars, lifeVars, invVars, raceVars>>
  /\ pFn = "none"
  /\ \E raw \in RawParameterLists :
       /\ pIn' = raw
       /\ pOut' = parseParameters(raw, 1)
  /\ pFn' = "parseOpenApiSpec"

\* the call has returned and its result has been used
PureReturn ==
  /\ UNCHANGED <<armVars, lifeVars, invVars, raceVars>>
  /\ pFn # "none"
  /\ pFn' = "none"
  /\ pIn' = <<>>
  /\ pOut' = <<>>

PureNext ==
  \/ CallSanitizeKey
  \/ CallFilterOperations
  \/ CallDeduplicateByFamily
  \/ CallGenerateZodSchema
  \/ CallParseParameters
  \/ PureReturn

\* ------------------------------------------------------------------------
\* Two incremental registrations for one API in flight at once
\* ------------------------------------------------------------------------
\* two put_connection handlers have got their PUT answered; each calls
\* registerToolsForConnection for a connection of the same API
RaceCalls == {1, 2}

RaceConn(p) == IF p = 1 THEN ConnList ELSE ConnListB

RaceInit ==
  /\ rPc = [p \in RaceCalls |-> "start"]
  /\ rDoc = [p \in RaceCalls |-> NoResponse]
  /\ rStats = [p \in RaceCalls |-> ZeroStats]
  /\ rRegistry = EmptyMap
  /\ rRegistrar = StaticToolNames \cup MetaToolNames
  /\ rCache = EmptyMap
  /\ rNotified = 0
  /\ rPassed = <<>>

\* a call returns stats
RaceReturn(p, stats) ==
  /\ rStats' = [rStats EXCEPT ![p] = stats]
  /\ rPc' = [rPc EXCEPT ![p] = "done"]

\* registerToolsForConnection up to its first await: lines 190-202
RaceBegin ==
  /\ UNCHANGED <<armVars, lifeVars, invVars, pureVars>>
  /\ \E p \in RaceCalls :
       /\ rPc[p] = "start"
       /\ IF AlreadyRegistered(rRegistry, RaceConn(p).apiName)
            THEN RaceReturn(p, ZeroStats)
            ELSE /\ rPc' = [rPc EXCEPT ![p] = "token"]
                 /\ UNCHANGED rStats
  /\ UNCHANGED <<rDoc, rRegistry, rRegistrar, rCache, rNotified, rPassed>>

\* await tokenProvider() settles, and fetchApiSchema runs to its await or,
\* with the document cached, to its return: lines 202-203, 66-72
RaceToken ==
  /\ UNCHANGED <<armVars, lifeVars, invVars, pureVars>>
  /\ \E p \in RaceCalls :
       /\ rPc[p] = "token"
       /\ \E ok \in BOOLEAN :
            IF ~ok
              THEN /\ RaceReturn(p, [ZeroStats EXCEPT !.errors = 1])
                   /\ UNCHANGED rDoc
              ELSE IF MustFetch(rCache, RaceConn(p).apiName)
                THEN /\ rPc' = [rPc EXCEPT ![p] = "fetch"]
                     /\ UNCHANGED <<rDoc, rStats>>
                ELSE /\ rDoc' = [rDoc EXCEPT ![p] = rCache[RaceConn(p).apiName]]
                     /\ rPc' = [rPc EXCEPT ![p] = "register"]
                     /\ UNCHANGED rStats
  /\ UNCHANGED <<rRegistry, rRegistrar, rCache, rNotified, rPassed>>

\* the managed-API GET settles and fetchApiSchema returns: lines 72-87
RaceFetch ==
  /\ UNCHANGED <<armVars, lifeVars, invVars, pureVars>>
  /\ \E p \in RaceCalls :
       /\ rPc[p] = "fetch"
       /\ \/ \E result \in ApiResponses :
               /\ rCache' = CachePut(rCache, RaceConn(p).apiName, result)
               /\ rDoc' = [rDoc EXCEPT ![p] = result]
               /\ rPc' = [rPc EXCEPT ![p] = "register"]
               /\ UNCHANGED rStats
          \/ /\ RaceReturn(p, [ZeroStats EXCEPT !.errors = 1])
             /\ UNCHANGED <<rDoc, rCache>>
  /\ UNCHANGED <<rRegistry, rRegistrar, rNotified, rPassed>>

\* the call resumes with the document and runs to its return without
\* another await: lines 204-222
RaceRegister ==
  /\ UNCHANGED <<armVars, lifeVars, invVars, pureVars>>
  /\ \E p \in RaceCalls :
       /\ rPc[p] = "register"
       /\ IF rDoc[p].kind = "null"
            THEN /\ RaceReturn(p, ZeroStats)
                 /\ UNCHANGED <<rRegistry, rRegistrar, rNotified, rPassed>>
            ELSE LET done == CompileAndRegister(RaceConn(p), rDoc[p],
                                                rRegistry, rRegistrar)
                     stats == [registered |-> done.registered,
                               skipped |-> done.skipped, errors |-> 0]
                 IN /\ rRegistry' = done.registry
                    /\ rRegistrar' = done.registrar
                    /\ rPassed' = rPassed \o done.passed
                    /\ rNotified' = IF ~done.threw /\ ShouldNotify(stats)
                                      THEN rNotified + 1 ELSE rNotified
                    /\ IF done.threw
                         THEN RaceReturn(p, [ZeroStats EXCEPT !.errors = 1])
                         ELSE RaceReturn(p, stats)
  /\ UNCHANGED <<rDoc, rCache>>

RaceNext ==
  \/ RaceBegin
  \/ RaceToken
  \/ RaceFetch
  \/ RaceRegister

Init ==
  /\ ArmInit
  /\ LifeInit
  /\ InvokeInit
  /\ PureInit
  /\ RaceInit

\* the lifecycle coordinator, its ARM calls seen from outside
Spec == Init /\ [][LifeNext]_vars

\* calls of the functions of the schema pipeline
SpecSchema == Init /\ [][PureNext]_vars

\* one dynamic tool invocation after the other
SpecInvoke == Init /\ [][InvokeNext]_vars

\* the ARM request pipeline on its own
SpecArm == Init /\ [][ArmNext]_vars

\* two incremental registrations for one API, interleaved at their awaits
SpecRace == Init /\ [][RaceNext]_vars

\* ------------------------------------------------------------------------
\* Properties of the ARM request pipeline (checked under SpecArm)
\* ------------------------------------------------------------------------
ArmEnded == armPc \in {"returned", "thrown"}

\* an attempt that failed retryably, in the words of the specification:
\* status 429 or 5xx, or the fetch threw (a timeout included)
FailedRetryably(a) ==
  \/ a.outcome \in {"throw", "timeout"}
  \/ a.outcome = "response" /\ (a.status = 429 \/ (a.status >= 500 /\ a.status <= 599))

AllFailedRetryably == \A i \in 1..Len(history) : FailedRetryably(history[i])

\* C1: when every attempt of a call fails retryably, the call makes exactly
\* 4 attempts and then raises the failure of the 4th: an ArmError with that
\* response's status, or the transport error of the fetch that threw.
C1_RetryBudget ==
  /\ Len(history) <= 4
  /\ (ArmEnded /\ AllFailedRetryably) =>
       /\ Len(history) = 4
       /\ armPc = "thrown"
       /\ LET last == history[4] IN
            /\ last.outcome = "response" =>
                 armResult.kind = "ArmError" /\ armResult.statusCode = last.status
            /\ last.outcome = "throw" =>
                 armResult.kind = "Error" /\ armResult.message = "fetch failed"
            /\ last.outcome = "timeout" =>
                 armResult.kind = "Error" /\ armResult.message = "TimeoutError"
  /\ (armPc \in {"loop", "sleep"} /\ AllFailedRetryably) => Len(history) < 4

C1_Witness ==
  /\ armPc = "thrown"
  /\ Len(history) = 4
  /\ AllFailedRetryably
  /\ history[1].outcome = "throw"
  /\ history[2].outcome = "response" /\ history[2].status = 429
  /\ history[4].outcome = "response" /\ history[4].status = 503
  /\ armResult.kind = "ArmError"

\* C2: a further attempt is started only after an attempt that answered 429
\* or 5xx or whose fetch threw; an attempt that received a 2xx response, or
\* any other non-OK status, is the last attempt of its call.
C2_RetryOnlyTransient ==
  \A i \in 1..Len(history) : i < Len(history) => FailedRetryably(history[i])

\* C3: every attempt of one call sends the same x-ms-correlation-request-id,
\* the one value generated for that call, and one value is generated per call.
C3_CorrelationStable ==
  /\ \A i \in 1..Len(history) : history[i].corr = correlationId
  /\ \A i, j \in 1..Len(history) : history[i].corr = history[j].corr
  /\ uuidCount = calls

C3_Witness ==
  /\ calls = 2
  /\ Len(history) = 4
  /\ history[4].outcome # "pending"

Is4xxNot429(status) == status >= 400 /\ status <= 499 /\ status # 429

\* C4: a 4xx response other than 429 ends the call without a further attempt,
\* with an ArmError whose statusCode is the status and whose code and message
\* are those of the {error:{code,message}} envelope, or "UnknownError" and
\* "ARM request failed with status <N>" when the body cannot be parsed.
C4_NonRetryableRaised ==
  \A i \in 1..Len(history) :
    (history[i].outcome = "response" /\ Is4xxNot429(history[i].status)) =>
      /\ i = Len(history)
      /\ armPc = "thrown"
      /\ armResult.kind = "ArmError"
      /\ armResult.statusCode = history[i].status
      /\ lastBody = BodyEnvelope =>
           armResult.code = "InvalidParameter" /\ armResult.message = "bad"
      /\ lastBody \in {BodyHtml, BodyEmpty} =>
           /\ armResult.code = "UnknownError"
           /\ history[i].status = 400 =>
                armResult.message = "ARM request failed with status 400"
           /\ history[i].status = 404 =>
                armResult.message = "ARM request failed with status 404"
      /\ lastBody = BodyCodeOnly => armResult.code = "AuthorizationFailed"
      /\ lastBody = BodyMsgOnly => armResult.message = "denied"

C4_Witness ==
  /\ armPc = "thrown"
  /\ Len(history) = 1
  /\ history[1].outcome = "response" /\ history[1].status = 400
  /\ lastBody = BodyEnvelope
  /\ armResult = ArmError("InvalidParameter", "bad", 400)

C5_WitnessThreeRetries ==
  /\ armPc = "returned"
  /\ Len(history) = 4
  /\ \A i \in 1..3 : FailedRetryably(history[i])
  /\ lastBody = BodyEmpty

\* C6: every attempt carries its own 30 s timeout: no attempt starts with a
\* timer that has already fired during an earlier attempt.
C6_FreshTimeoutPerAttempt ==
  \A i \in 1..Len(history) : ~history[i].abortedAtStart

\* a timed-out attempt is treated as a transport failure and retried
C6_TimeoutRetried ==
  \A i \in 1..Len(history) :
    (history[i].outcome = "timeout" /\ i < 4) =>
      (i < Len(history) \/ armPc \in {"sleep", "loop"})

\* ------------------------------------------------------------------------
\* Properties of the lifecycle coordinator (checked under Spec)
\* ------------------------------------------------------------------------
RegistrySize == Cardinality(DOMAIN toolRegistry)

\* entries the running handler has added to toolRegistry
Added == RegistrySize - hSizeBefore

\* managed-API document GETs of the running handler
SchemaFetches == Cardinality({i \in DOMAIN hLog : hLog[i].op = "schema"})

PutAnswered == hPc = "done" /\ hKind = "put" /\ hResult.kind = "ok"

\* C7: in a startup scan or refresh every ARM request (the listing and each
\* managed-API document fetch) carries a token acquired for it: no token is
\* used by two ARM requests.
C7_TokenPerArmRequest ==
  hKind \in {"startup", "refresh"} =>
    \A i, j \in DOMAIN hLog : i # j => hLog[i].token # hLog[j].token

\* C8: two incremental registrations in sequence for the same apiName: the
\* registry is as large after the second as after the first, and at most one
\* notifications/tools/list_changed is sent across both.
SecondIncrementalDone ==
  /\ PutAnswered
  /\ hIncCalled
  /\ prevInc.valid
  /\ prevInc.apiName = hConn.apiName

C8_IncrementalIdempotent ==
  SecondIncrementalDone =>
    /\ RegistrySize = prevInc.sizeAfter
    /\ prevInc.notified + hNotified <= 1

\* C8 (amended): at most one notification across both calls in every case;
\* the registry size is unchanged by the second call whenever the first call
\* left a tool of the API registered or the API's document cached.
C8_IncrementalIdempotentOnceSettled ==
  SecondIncrementalDone =>
    /\ prevInc.notified + hNotified <= 1
    /\ prevInc.settled =>
         /\ RegistrySize = prevInc.sizeAfter
         /\ hNotified = 0
         /\ hResult.stats.registered = 0

C8_Witness ==
  /\ SecondIncrementalDone
  /\ prevInc.settled
  /\ prevInc.registered > 0
  /\ prevInc.notified = 1
  /\ RegistrySize = prevInc.sizeAfter

\* the second call of the counterexample's shape, seen with the amended claim
C8_WitnessUnsettled ==
  /\ SecondIncrementalDone
  /\ ~prevInc.settled
  /\ Added > 0

\* C9: an incremental registration sends notifications/tools/list_changed
\* exactly once when the registered count it returns is greater than 0, and
\* not at all when that count is 0.
C9_NotifyOnNetPositive ==
  /\ hNotified <= 1
  /\ PutAnswered =>
       /\ hResult.stats.registered > 0 => hNotified = 1
       /\ hResult.stats.registered = 0 => hNotified = 0

C9_Witness ==
  /\ PutAnswered
  /\ hResult.stats.registered = 2
  /\ hResult.stats.skipped = 1
  /\ hNotified = 1

C9_WitnessZero ==
  /\ PutAnswered
  /\ hIncCalled
  /\ SchemaFetches = 1
  /\ hResult.stats = ZeroStats
  /\ hNotified = 0

\* C10: when put_connection's registration adds N > 0 tools for an API that
\* had none, the Swagger was fetched exactly once and the returned body
\* holds dynamicTools.registered = N; a body never holds dynamicTools
\* otherwise, and a later put_connection for the same apiName returns a
\* body without dynamicTools.
C10_PutReportsAdded ==
  PutAnswered =>
    /\ hResult.hasDynamicTools =>
         /\ Added > 0
         /\ hResult.registered = Added
         /\ SchemaFetches = 1
    /\ Added > 0 => hResult.hasDynamicTools /\ hResult.registered = Added
    /\ hConn.apiName \in announced => ~hResult.hasDynamicTools

\* the same for the registrations that end without an error: there the
\* body does report the N tools added
C10_PutReportsRegistered ==
  PutAnswered =>
    /\ hResult.hasDynamicTools =>
         /\ Added > 0
         /\ hResult.registered = Added
         /\ SchemaFetches = 1
    /\ (Added > 0 /\ hResult.stats.errors = 0) =>
         hResult.hasDynamicTools /\ hResult.registered = Added
    /\ hConn.apiName \in announced => ~hResult.hasDynamicTools

C10_Witness ==
  /\ PutAnswered
  /\ hSizeBefore = 0
  /\ hResult.hasDynamicTools
  /\ hResult.registered = 2
  /\ Added = 2
  /\ SchemaFetches = 1

C10_WitnessSecondPut ==
  /\ PutAnswered
  /\ hConn.apiName \in announced
  /\ ~hResult.hasDynamicTools

\* ------------------------------------------------------------------------
\* Properties of the scan, the schema cache and the registry (under Spec)
\* ------------------------------------------------------------------------
InScan == hKind \in {"startup", "refresh"}

ScanDone == InScan /\ hPc = "done" /\ hResult.kind = "ok"

FailedIterations == {i \in DOMAIN hOutcomes : hOutcomes[i].errors = 1}

\* the tool names of the operations of a document that survive filtering
SurvivingNames(conn, response) ==
  LET ops == filterOperations(DocOps(response.doc))
  IN {buildToolName(conn.apiName, ops[i].operationId) : i \in DOMAIN ops}

\* C11: in a scan a failure while fetching, parsing or registering one
\* connection's API adds exactly one to the errors tally and the loop still
\* processes every later connection of the listing, in order, registering
\* the tools of those whose document compiles.
C11_ScanSurvivesFailures ==
  InScan =>
    /\ hStats.errors = Cardinality(FailedIterations)
    /\ hPc = "scan_conn" => Len(hOutcomes) = hIdx - 1
    /\ \A i \in DOMAIN hOutcomes : hOutcomes[i].conn = hConns[i]
    /\ ScanDone =>
         /\ Len(hOutcomes) = Len(hConns)
         /\ hResult.stats.errors = Cardinality(FailedIterations)
         /\ \A i \in DOMAIN hOutcomes :
              hOutcomes[i].kind = "ok" =>
                SurvivingNames(hOutcomes[i].conn, hOutcomes[i].response)
                  \subseteq DOMAIN toolRegistry

C11_Witness ==
  /\ ScanDone
  /\ Len(hOutcomes) = 2
  /\ hOutcomes[1].kind = "fetch_failed"
  /\ hOutcomes[2].kind = "ok"
  /\ hOutcomes[2].registered = 2
  /\ hResult.stats = [registered |-> 2, skipped |-> 0, errors |-> 1]

C11_WitnessParseThrew ==
  /\ ScanDone
  /\ Len(hOutcomes) = 2
  /\ hOutcomes[1].kind = "threw"
  /\ hOutcomes[2].kind = "ok"
  /\ hOutcomes[2].registered > 0

\* a response of the managed-API GET that holds no Swagger document at all
LacksSwagger(response) ==
  response.kind \in {"null", "wrapped"} /\ response.doc = "none"

\* C12: in a scan, a connection whose managed-API fetch succeeded with a
\* response that carries no Swagger document is skipped: no tool is
\* registered for it and it adds nothing to the errors tally.
C12_NoSwaggerSkipped ==
  InScan =>
    \A i \in DOMAIN hOutcomes :
      LacksSwagger(hOutcomes[i].response) =>
        hOutcomes[i].errors = 0 /\ hOutcomes[i].added = 0

\* a response of the form {properties: {swagger: S}}
EmbedsSwagger(response) == response.kind = "wrapped" /\ response.doc # "none"

\* C13: fetchApiSchema returns and caches the Swagger document S embedded at
\* properties.swagger: the cache holds documents only, and a connection whose
\* API answered {properties: {swagger: S}} gets the operations of S.paths
\* that survive filtering registered as tools.
C13_EmbeddedSwaggerCompiled ==
  /\ \A api \in DOMAIN schemaCache : schemaCache[api].kind = "bare"
  /\ InScan =>
       \A i \in DOMAIN hOutcomes :
         EmbedsSwagger(hOutcomes[i].response) =>
           /\ hOutcomes[i].kind = "ok"
           /\ SurvivingNames(hOutcomes[i].conn, hOutcomes[i].response)
                \subseteq DOMAIN toolRegistry

C14_WitnessNullRefetched ==
  \E api \in ApiNames :
    getsSinceClear[api].resolved = 2 /\ getsSinceClear[api].stored = 1

SurvivingCount(response) == Len(filterOperations(DocOps(response.doc)))

\* C15: refresh_tools clears the schema cache and nothing else, then scans
\* again: every tool registered before the refresh is still registered with
\* the same (connection, operation), and an operation whose tool name already
\* exists is counted as skipped and not registered again.
C15_RefreshAdditive ==
  hKind = "refresh" =>
    /\ hPc = "scan_token" => schemaCache = EmptyMap
    /\ \A name \in DOMAIN hRegBefore :
         name \in DOMAIN toolRegistry /\ toolRegistry[name] = hRegBefore[name]
    /\ \A i \in DOMAIN hOutcomes :
         LET o == hOutcomes[i] IN
           /\ o.kind = "ok" =>
                /\ o.registered = o.added
                /\ o.registered + o.skipped = SurvivingCount(o.response)
           /\ (o.response.kind = "bare"
                 /\ SurvivingNames(o.conn, o.response) \subseteq DOMAIN hRegBefore) =>
                /\ o.kind = "ok"
                /\ o.registered = 0
                /\ o.skipped = SurvivingCount(o.response)

C15_Witness ==
  /\ hKind = "refresh"
  /\ ScanDone
  /\ hSizeBefore = 2
  /\ Len(hOutcomes) = 2
  /\ hOutcomes[1].kind = "ok" /\ hOutcomes[1].registered = 2
  /\ hOutcomes[2].kind = "ok" /\ hOutcomes[2].registered = 0
  /\ hOutcomes[2].skipped = 2
  /\ hResult.stats = [registered |-> 2, skipped |-> 2, errors |-> 0]
  /\ RegistrySize = 4

\* C16: whatever runs (a scan, an incremental registration, a refresh, a
\* tool invocation), an entry of the tool registry is never removed and its
\* (connection, operation) value never changes.
C16_RegistryAppendOnly ==
  [][\A name \in DOMAIN toolRegistry :
       /\ name \in DOMAIN toolRegistry'
       /\ toolRegistry'[name] = toolRegistry[name]]_vars

C16_Witness ==
  /\ hKind = "put"
  /\ hPc = "done"
  /\ runs = 2
  /\ hSizeBefore > 0
  /\ RegistrySize > hSizeBefore
  /\ \A name \in DOMAIN hRegBefore : toolRegistry[name] = hRegBefore[name]

\* ^[a-zA-Z0-9_.-]{1,64}$
MatchesNamePattern(name) ==
  /\ Len(name) >= 1
  /\ Len(name) <= 64
  /\ \A i \in DOMAIN name :
       name[i] \in Uppers \cup Lowers \cup Digits \cup {"_", ".", "-"}

\* C17: every tool name that dynamic registration passes to the registrar
\* and stores in the registry matches ^[a-zA-Z0-9_.-]{1,64}$ (a longer name
\* is truncated to 64 characters).
C17_ToolNamesValid ==
  \A name \in DOMAIN toolRegistry
              \cup (registrarTools \ (StaticToolNames \cup MetaToolNames)) :
    MatchesNamePattern(name)

\* the invocation has got past line 288: const request exists
RequestBuilt ==
  \/ iPc = "arm"
  \/ iPc = "done" /\ iFailure.stage # "token"

\* C18: a dynamic tool handler never lets an exception propagate: a failure
\* of the token acquisition or of the ARM call ends the invocation with a
\* returned text content whose error flag is set and whose text is
\* "Error invoking <apiName>/<operationId>: <message>".
C18_ErrorsWrapped ==
  /\ iPc # "propagated"
  /\ iFailure.stage # "none" =>
       /\ iPc = "done"
       /\ iResult.returned
       /\ iResult.isError
       /\ iResult.text = <<"Error invoking ", iConn.apiName, "/",
                           iOp.operationId, ": ", iFailure.message>>
  /\ iPc = "done" /\ iFailure.stage = "none" => ~iResult.isError

C18_Witness ==
  /\ iPc = "done"
  /\ iFailure = [stage |-> "token", message |-> "Token expired"]
  /\ iOp = OpPostItem
  /\ iResult.isError

C18_WitnessArmThrew ==
  /\ iPc = "done"
  /\ iFailure.stage = "arm"
  /\ iRequest.hasBody
  /\ iResult.isError

\* the path parameters of op the caller gave a value for
SuppliedPathParams(op, params) ==
  {i \in DOMAIN op.parameters :
     /\ op.parameters[i].in = "path"
     /\ op.parameters[i].name # NameConnectionId
     /\ sanitizeKey(op.parameters[i].name) \in DOMAIN params}

\* C19: for every operation and every parameter map valid against its
\* generated schema, the envelope path holds no {name} placeholder of a path
\* parameter whose value was supplied.
C19_NoSuppliedPlaceholderLeft ==
  iPc # "idle" =>
    \A i \in SuppliedPathParams(iOp, iParams) :
      Placeholder(iOp.parameters[i].name) \notin Range(iBuilt.path)

\* the input keys of the generated schema that stand for a body property
\* and were given a value
SuppliedBodyKeys(op, params) ==
  {k \in DOMAIN params : generateZodSchema(op)[k].from = "body"}

\* C20: the envelope carries a body if and only if the operation has a
\* request body and at least one body property was supplied, and it carries
\* the Content-Type header if and only if it carries a body.
C20_BodyIffSupplied ==
  RequestBuilt =>
    /\ iRequest.hasBody <=>
         (iOp.hasRequestBody /\ SuppliedBodyKeys(iOp, iParams) # {})
    /\ "Content-Type" \in iRequest.headers <=> iRequest.hasBody

\* the input keys under which generateZodSchema exposes body property name
BodyKeysOf(op, name) ==
  LET schema == generateZodSchema(op)
  IN {k \in DOMAIN schema : schema[k].from = "body" /\ schema[k].name = name}

\* every key of queries is the original name of a query parameter and holds
\* the value supplied under that parameter's sanitized key
QueriesAsSupplied ==
  \A k \in DOMAIN iRequest.queries :
    \E i \in DOMAIN iOp.parameters :
      /\ iOp.parameters[i].name = k
      /\ iOp.parameters[i].in = "query"
      /\ sanitizeKey(k) \in DOMAIN iParams
      /\ iRequest.queries[k] = iParams[sanitizeKey(k)]

\* C21: in the envelope every key of queries and of body is the original
\* parameter or property name, and its value is the one the caller supplied
\* under the corresponding key of the generated input schema.
C21_OriginalNamesSuppliedValues ==
  RequestBuilt =>
    /\ QueriesAsSupplied
    /\ \A k \in DOMAIN iRequest.body :
         /\ \E j \in DOMAIN iOp.properties : iOp.properties[j].name = k
         /\ \E key \in BodyKeysOf(iOp, k) :
              /\ key \in DOMAIN iParams
              /\ iRequest.body[k] = iParams[key]

\* C22: no key of the generated input schema comes from the connectionId
\* parameter, and the envelope path of an invocation does not begin with
\* the {connectionId} placeholder.
C22_ConnectionIdNeverSurfaces ==
  iPc # "idle" =>
    /\ \A k \in DOMAIN generateZodSchema(iOp) :
         /\ generateZodSchema(iOp)[k].name # NameConnectionId
         /\ k # sanitizeKey(NameConnectionId)
    /\ NameConnectionId \notin DOMAIN iParams
    /\ iBuilt.path # <<>> => iBuilt.path[1] # Placeholder(NameConnectionId)
    /\ RequestBuilt => iRequest.path = iBuilt.path

C22_Witness ==
  /\ iPc = "arm"
  /\ iOp = OpGetItem
  /\ iOp.path[1] = Placeholder(NameConnectionId)
  /\ iOp.parameters[1].name = NameConnectionId
  /\ DOMAIN generateZodSchema(iOp) = {NameId, sanitizeKey(NameFilter)}
  /\ iRequest.path = <<Literal("items"), Literal("42")>>

\* ------------------------------------------------------------------------
\* Properties of the schema pipeline's functions (under SpecSchema)
\* ------------------------------------------------------------------------
\* C23: sanitizeKey is idempotent and its output matches
\* ^[a-zA-Z0-9_.-]{1,64}$ for every input; "$filter" gives "_filter",
\* "$top" gives "_top" and "" gives "param".
C23_SanitizeKeyIdempotent ==
  /\ pFn = "sanitizeKey" =>
       /\ sanitizeKey(pOut) = pOut
       /\ MatchesNamePattern(pOut)
       /\ pIn = <<>> => pOut = <<"p", "a", "r", "a", "m">>
  /\ sanitizeKey(<<"$", "f", "i", "l", "t", "e", "r">>)
       = <<"_", "f", "i", "l", "t", "e", "r">>
  /\ sanitizeKey(<<"$", "t", "o", "p">>) = <<"_", "t", "o", "p">>

\* a name past 64 characters whose unsafe characters were replaced,
\* collapsed and cut
C23_Witness ==
  /\ pFn = "sanitizeKey"
  /\ pIn = <<"-", "$", "Z">> \o LongTail
  /\ pOut = <<"_", "Z">> \o SubSeq(LongTail, 1, 62)
  /\ Len(pIn) = 66
  /\ Len(pOut) = 64

C23_WitnessEmpty ==
  /\ pFn = "sanitizeKey"
  /\ pIn = <<".", "-", ".">>
  /\ pOut = <<"p", "a", "r", "a", "m">>

\* C24: the output of filterOperations holds no operation with visibility
\* "internal", none with isTrigger true and none whose path contains
\* "$subscriptions".
C24_FilterExcludes ==
  pFn = "filterOperations" =>
    \A i \in DOMAIN pOut :
      /\ pOut[i].visibility # "internal"
      /\ ~pOut[i].isTrigger
      /\ ~PathIncludesSubscriptions(pOut[i].path)

C24_Witness ==
  /\ pFn = "filterOperations"
  /\ pIn = <<OpPoll, OpSubAll, OpSend>>
  /\ pOut = <<OpSend>>

C24_WitnessInternal ==
  /\ pFn = "filterOperations"
  /\ pIn = <<OpHook, OpAdvanced, OpSub>>
  /\ pOut = <<OpAdvanced>>

\* the families that occur in a list of operations
FamiliesOf(ops) == {ops[i].family : i \in DOMAIN ops} \ {NoFamily}

\* C25: for every family of the input of deduplicateByFamily exactly one
\* operation of that family is in the output, and it has the maximum
\* revision among the input's members of the family; an operation without
\* a family is in the output if and only if it is not deprecated.
C25_OnePerFamilyMaxRevision ==
  pFn = "deduplicateByFamily" =>
    /\ \A fam \in FamiliesOf(pIn) :
         LET members == {i \in DOMAIN pOut : pOut[i].family = fam}
         IN /\ Cardinality(members) = 1
            /\ \A i \in members : \A j \in DOMAIN pIn :
                 pIn[j].family = fam => pOut[i].revision >= pIn[j].revision
    /\ FamiliesOf(pOut) \subseteq FamiliesOf(pIn)
    /\ \A j \in DOMAIN pIn :
         pIn[j].family = NoFamily =>
           ((\E i \in DOMAIN pOut : pOut[i] = pIn[j]) <=> ~pIn[j].deprecated)
    /\ \A i \in DOMAIN pOut : \E j \in DOMAIN pIn : pIn[j] = pOut[i]

\* the deprecated revision 1 loses to revision 2, and a deprecated
\* operation without a family is dropped
C25_Witness ==
  /\ pFn = "deduplicateByFamily"
  /\ pIn = <<OpDel, OpOld, OpDelV2>>
  /\ pOut = <<OpDelV2>>

\* sub can be obtained from seq by deleting elements
RECURSIVE IsSubsequence(_, _)
IsSubsequence(sub, seq) ==
  IF sub = <<>> THEN TRUE
  ELSE IF seq = <<>> THEN FALSE
  ELSE IF Head(sub) = Head(seq) THEN IsSubsequence(Tail(sub), Tail(seq))
  ELSE IsSubsequence(sub, Tail(seq))

\* the first position in ops of a member of fam that has the family's
\* maximal revision
FirstOfMaxRevision(ops, fam) ==
  LET members == {j \in DOMAIN ops : ops[j].family = fam}
      top == {j \in members : \A k \in members : ops[j].revision >= ops[k].revision}
  IN CHOOSE j \in top : \A k \in top : j <= k

\* C26: the output of deduplicateByFamily and of filterOperations is a
\* subsequence of the input (survivors keep their input order), and among
\* the members of a family that share the maximal revision the first in
\* input order is the one kept.
C26_OrderKeptFirstOfTies ==
  /\ pFn \in {"deduplicateByFamily", "filterOperations"} => IsSubsequence(pOut, pIn)
  /\ pFn = "deduplicateByFamily" =>
       \A fam \in FamiliesOf(pIn) :
         \A i \in DOMAIN pOut :
           pOut[i].family = fam => pOut[i] = pIn[FirstOfMaxRevision(pIn, fam)]

\* two members of family Del with revision 2: the first stays, in its place
C26_Witness ==
  /\ pFn = "deduplicateByFamily"
  /\ pIn = <<OpSend, OpDelV2b, OpDelV2>>
  /\ pOut = <<OpSend, OpDelV2b>>

C26_WitnessFilter ==
  /\ pFn = "filterOperations"
  /\ pIn = <<OpDelV2, OpHook, OpAdvanced>>
  /\ pOut = <<OpDelV2, OpAdvanced>>

\* the schema map of op as it stands when the first n body properties have
\* been handled
SchemaAfter(op, n) ==
  SchemaOfBody(SubSeq(op.properties, 1, n), 1,
               SchemaOfParams(op.parameters, 1, EmptyMap))

\* C27: generateZodSchema puts each non-binary body property under its
\* sanitized name unless that key is already in the schema map, and then
\* under body_<sanitized>, leaving what was stored under the colliding key
\* as it was.
C27_BodyPrefixOnCollision ==
  pFn = "generateZodSchema" /\ pIn.hasRequestBody =>
    /\ pOut = SchemaAfter(pIn, Len(pIn.properties))
    /\ \A j \in DOMAIN pIn.properties :
         LET prop == pIn.properties[j]
             before == SchemaAfter(pIn, j - 1)
             after == SchemaAfter(pIn, j)
             sanitized == sanitizeKey(prop.name)
             key == IF sanitized \in DOMAIN before
                      THEN BodyPrefix \o sanitized ELSE sanitized
         IN IF prop.format = "binary" THEN after = before
            ELSE /\ DOMAIN after = DOMAIN before \cup {key}
                 /\ after[key] = [from |-> "body", name |-> prop.name,
                                  type |-> prop.type]
                 /\ sanitized \in DOMAIN before => after[sanitized] = before[sanitized]

\* C28: an entry of the parameters array that is a $ref of the form
\* #/parameters/<name> is resolved against the shared parameters section:
\* the parsed operation has a parameter with the shared definition's name,
\* in, type, required and description.
C28_ParameterRefResolved ==
  pFn = "parseOpenApiSpec" =>
    \A i \in DOMAIN pIn :
      pIn[i].ref \in DOMAIN SharedParameters =>
        \E j \in DOMAIN pOut :
          pOut[j] = ParsedParameterOf(SharedParameters[pIn[i].ref])

\* C29: armRequest sends an HTTP body only for PUT and POST: a fetch of a
\* GET or a DELETE carries no body on any attempt, whatever options.body is.
C29_BodyOnlyForPutPost ==
  \A i \in DOMAIN history :
    /\ history[i].method = fetchOptions.method
    /\ history[i].body # Undefined => history[i].method \in {"PUT", "POST"}
    /\ history[i].method \in {"GET", "DELETE"} => history[i].body = Undefined

\* a DELETE called with a body was fetched twice, each time without it
C29_Witness ==
  /\ Len(history) = 2
  /\ history[2].attempt = 1
  /\ \A i \in DOMAIN history :
       history[i].method = "DELETE" /\ history[i].body = Undefined

C29_WitnessPost ==
  /\ Len(history) = 2
  /\ \A i \in DOMAIN history :
       history[i].method = "POST" /\ history[i].body = "{request:{}}"

\* the tool names of a document's surviving operations, in parse order
NamesInParseOrder(conn, response) ==
  LET parsed == parseOpenApiSpec(response)
      ops == filterOperations(parsed.ops)
  IN IF parsed.throws THEN <<>>
     ELSE [i \in DOMAIN ops |-> buildToolName(conn.apiName, ops[i].operationId)]

\* the apiNames of the managed-API GETs of the ARM log, in the order issued
RECURSIVE SchemaGets(_)
SchemaGets(log) ==
  IF log = <<>> THEN <<>>
  ELSE (IF Head(log).op = "schema" THEN <<Head(log).api>> ELSE <<>>)
         \o SchemaGets(Tail(log))

\* C30: in a startup scan the ARM requests are issued one after the other
\* (the listing first, then at most one document GET per connection, each
\* answered before the next is sent), the connections are processed in the
\* order of the listing, and the surviving operations of each connection
\* are registered in parse order.
C30_ScanSequentialInOrder ==
  hKind = "startup" /\ hPc \in {"scan_conn", "done"} /\ hLog # <<>> =>
    /\ hLog[1].op = "list"
    /\ \A i \in DOMAIN hLog : i > 1 => hLog[i].op = "schema"
    /\ Len(hLog) <= 1 + Len(hOutcomes)
    /\ Len(hOutcomes) <= Len(hConns)
    /\ IsSubsequence(SchemaGets(hLog),
                     [i \in DOMAIN hOutcomes |-> hConns[i].apiName])
    /\ \A i \in DOMAIN hOutcomes :
         /\ hOutcomes[i].conn = hConns[i]
         /\ IsSubsequence(hOutcomes[i].order,
                          NamesInParseOrder(hConns[i], hOutcomes[i].response))
         /\ hOutcomes[i].kind = "ok" =>
              Len(hOutcomes[i].order) = hOutcomes[i].registered

\* two connections of different APIs, each fetched and registered in turn
C30_Witness ==
  /\ hKind = "startup"
  /\ hPc = "done"
  /\ hConns = <<ConnListV2, ConnList>>
  /\ Len(hLog) = 3
  /\ SchemaGets(hLog) = <<ApiListV2, ApiList>>
  /\ Len(hOutcomes) = 2
  /\ hOutcomes[1].kind = "ok"
  /\ Len(hOutcomes[1].order) = 2
  /\ hOutcomes[1].order = NamesInParseOrder(ConnListV2, hOutcomes[1].response)
  /\ Len(hOutcomes[2].order) = 2

\* ------------------------------------------------------------------------
\* Failures, notifications and the registrar (under Spec)
\* ------------------------------------------------------------------------
\* C31: when the incremental registration fails after a successful PUT,
\* put_connection still returns the connection resource as a result that
\* is no error, without a dynamicTools field.
C31_PutSurvivesRegistrationFailure ==
  hKind = "put" /\ hPc = "done" /\ hStats.errors > 0 =>
    /\ hResult.kind = "ok"
    /\ hResult.hasConnection
    /\ ~hResult.hasDynamicTools

\* the document GET failed after the PUT
C31_Witness ==
  /\ hKind = "put"
  /\ hPc = "done"
  /\ Len(hLog) = 2
  /\ hLog[1].op = "put"
  /\ hLog[2].op = "schema"
  /\ hConn.apiName \notin DOMAIN schemaCache
  /\ hStats = [registered |-> 0, skipped |-> 0, errors |-> 1]
  /\ hResult.kind = "ok"
  /\ hResult.hasConnection
  /\ ~hResult.hasDynamicTools


\* C32: when the startup scan throws (the token or the connection listing
\* fails), configureAllTools does not reject: the static tools are already
\* registered and the meta-tools list_dynamic_tools and refresh_tools are
\* registered afterwards, and not before the scan is over.
C32_StartupFailureKeepsTools ==
  /\ hKind = "startup" /\ hPc # "configured" =>
       /\ StaticToolNames \subseteq registrarTools
       /\ MetaToolNames \cap registrarTools = {}
       /\ hPc # "rejected"
  /\ hKind = "startup" /\ hPc = "configured" /\ hResult.kind = "error" =>
       /\ StaticToolNames \cup MetaToolNames \subseteq registrarTools
       /\ toolRegistry = EmptyMap
  /\ hPc = "idle" => StaticToolNames \cup MetaToolNames \subseteq registrarTools

C32_Witness ==
  /\ hKind = "startup" /\ hPc = "configured"
  /\ hResult.kind = "error"
  /\ Len(hLog) = 1 /\ hLog[1].op = "list"
  /\ registrarTools = StaticToolNames \cup MetaToolNames

C32_WitnessToken ==
  /\ hKind = "startup" /\ hPc = "configured"
  /\ hResult.kind = "error"
  /\ hLog = <<>> /\ hTokens = 0
  /\ registrarTools = StaticToolNames \cup MetaToolNames


\* the names server.tool was called with in the first k iterations of the
\* running scan, in call order
RECURSIVE PassedUpTo(_)
PassedUpTo(k) ==
  IF k = 0 THEN <<>> ELSE PassedUpTo(k - 1) \o hOutcomes[k].passed

PassedInRun == PassedUpTo(Len(hOutcomes))

\* C33: at every point of a startup scan or a refresh, the tool names
\* dynamic registration has passed to the registrar in that run are exactly
\* the keys the run added to the tool registry (for the startup scan: the
\* whole key set), and no name was passed to the registrar twice.
C33_PassedEqualsRegistryKeys ==
  InScan =>
    LET passed == PassedInRun IN
      /\ {passed[i] : i \in DOMAIN passed} = DOMAIN toolRegistry \ DOMAIN hRegBefore
      /\ \A i, j \in DOMAIN passed : passed[i] = passed[j] => i = j

\* what holds instead: the dynamic names the registrar accepted are the keys
\* of the tool registry
C33_AcceptedEqualsRegistryKeys ==
  registrarTools \ (StaticToolNames \cup MetaToolNames) = DOMAIN toolRegistry

\* one startup scan calls the registrar twice with list_connections
C33_PassedTwice ==
  /\ hKind = "startup" /\ hPc = "done"
  /\ hConns = <<ConnList, ConnListB>>
  /\ Len(hOutcomes) = 2
  /\ hOutcomes[1].passed # <<>> /\ hOutcomes[2].passed # <<>>
  /\ hOutcomes[1].passed[Len(hOutcomes[1].passed)] = hOutcomes[2].passed[1]
  /\ hOutcomes[2].passed[1] \notin DOMAIN toolRegistry


\* C34: the registered count a startup scan returns, and the one an
\* incremental registration returns, is the number of entries that call
\* added to the tool registry, also when the registrar call throws part-way
\* through a connection's operations.
C34_RegisteredCountsAdded ==
  /\ hKind = "startup" /\ hPc = "done" /\ hResult.kind = "ok" =>
       hResult.stats.registered = Added
  /\ hKind = "put" /\ hPc = "done" /\ hIncCalled =>
       hStats.registered = Added

\* the count is right whenever no iteration of the call threw
C34_CountsAddedWithoutThrow ==
  /\ hKind = "startup" /\ hPc = "done" /\ hResult.kind = "ok"
       /\ (\A k \in DOMAIN hOutcomes : hOutcomes[k].kind # "threw") =>
       hResult.stats.registered = Added
  /\ hKind = "put" /\ hPc = "done" /\ hIncCalled /\ hStats.errors = 0 =>
       hStats.registered = Added

\* a startup scan that added three tools and returned registered = 0
C34_ScanLostCount ==
  /\ hKind = "startup" /\ hPc = "done" /\ hResult.kind = "ok"
  /\ hResult.stats = [registered |-> 0, skipped |-> 0, errors |-> 1]
  /\ Added = 3


\* C35: an incremental registration that added at least one tool to the
\* registry has emitted notifications/tools/list_changed during that call,
\* also when a later operation of the same API failed to register.
C35_AddedImpliesNotified ==
  hKind = "put" /\ hPc = "done" /\ hIncCalled /\ Added > 0 => hNotified > 0

\* the notification is there whenever the registration returned without error
C35_NotifiedWithoutThrow ==
  hKind = "put" /\ hPc = "done" /\ hIncCalled /\ hStats.errors = 0 =>
    (hNotified = 1 <=> Added > 0)

\* an incremental registration that added three tools and stayed silent
C35_AddedSilently ==
  /\ hKind = "put" /\ hPc = "done" /\ hIncCalled
  /\ Added = 3 /\ hNotified = 0
  /\ hStats = [registered |-> 0, skipped |-> 0, errors |-> 1]


\* registerToolsForConnection returned at line 198: the prefix check
\* matched, before any token was asked for
ShortCircuited ==
  /\ hKind = "put" /\ hPc = "done" /\ hIncCalled
  /\ hTokens = 1 /\ hStats = ZeroStats

\* the registry holds a tool whose stored connection is of this API
HoldsToolOfApi(registry, apiName) ==
  \E key \in DOMAIN registry : registry[key].connection.apiName = apiName

\* C36: an incremental registration short-circuits with all zeros only if
\* the registry already holds a tool whose stored connection has the new
\* connection's apiName; tools of another API, such as one whose apiName
\* extends this apiName with "_", never cause the short-circuit.
C36_ShortCircuitOnlyForSameApi ==
  ShortCircuited => HoldsToolOfApi(toolRegistry, hConn.apiName)

\* the short-circuit is exactly the prefix match of lines 194-200
C36_ShortCircuitIffPrefix ==
  hKind = "put" /\ hPc = "done" /\ hIncCalled =>
    (ShortCircuited <=> AlreadyRegistered(hRegBefore, hConn.apiName))

\* a connection of API list short-circuits on the tools of API list_v2
C36_ShortCircuitOnOtherApi ==
  /\ ShortCircuited
  /\ hConn = ConnList
  /\ toolRegistry # EmptyMap
  /\ \A key \in DOMAIN toolRegistry :
       toolRegistry[key].connection.apiName = ApiListV2


\* ------------------------------------------------------------------------
\* Interleaved incremental registrations (under SpecRace)
\* ------------------------------------------------------------------------
NoNamePassedTwice == \A i, j \in DOMAIN rPassed : rPassed[i] = rPassed[j] => i = j

\* C37: when two incremental registrations for the same not-yet-registered
\* apiName interleave at their awaits (token acquisition, schema fetch),
\* every tool name is passed to the registrar at most once and at most one
\* notifications/tools/list_changed is emitted in total.
C37_RaceRegistersOnce ==
  /\ NoNamePassedTwice
  /\ rNotified <= 1

\* what holds instead: a name is passed again only if the registrar refused
\* it, and two calls that got the same document notify at most once
C37_RaceAcceptsOnce ==
  /\ \A i, j \in DOMAIN rPassed :
       rPassed[i] = rPassed[j] /\ i # j => rPassed[i] \notin DOMAIN rRegistry
  /\ (\A p \in RaceCalls : rPc[p] = "done") /\ rDoc[1] = rDoc[2] => rNotified <= 1

\* both calls went past the prefix check, got the same document and each
\* called the registrar with list_connections
C37_RacePassedTwice ==
  /\ \A p \in RaceCalls : rPc[p] = "done" /\ rStats[p].errors = 1
  /\ rDoc[1] = rDoc[2] /\ rDoc[1].doc = "clash"
  /\ ~NoNamePassedTwice
  /\ Cardinality(DOMAIN rRegistry) = 3
  /\ rNotified = 0

\* the two calls got different documents and each added tools
C37_RaceNotifiedTwice ==
  /\ \A p \in RaceCalls : rPc[p] = "done" /\ rStats[p].registered > 0
  /\ rNotified = 2
  /\ NoNamePassedTwice


\* ------------------------------------------------------------------------
\* Who sends notifications/tools/list_changed (under Spec)
\* ------------------------------------------------------------------------
\* C38: a startup scan and a refresh_tools call never emit
\* notifications/tools/list_changed, whatever they add to the registry; only
\* an incremental registration emits it, and only one that got as far as
\* registering.
C38_OnlyIncrementalNotifies ==
  /\ InScan => hNotified = 0
  /\ hNotified > 0 => hKind = "put" /\ hIncCalled /\ hStats.registered > 0

\* a refresh that added tools and sent nothing
C38_Witness ==
  /\ hKind = "refresh" /\ hPc = "done" /\ hResult.kind = "ok"
  /\ hResult.stats.registered > 0 /\ Added > 0
  /\ hNotified = 0

\* a startup scan that added tools and sent nothing
C38_WitnessStartup ==
  /\ hKind = "startup" /\ hPc = "done" /\ hResult.kind = "ok"
  /\ hResult.stats.registered = 2 /\ Added = 2
  /\ hNotified = 0

\* the notification of an incremental registration
C38_WitnessPut ==
  /\ hKind = "put" /\ hPc = "done" /\ hNotified = 1 /\ Added > 0


\* ------------------------------------------------------------------------
\* Name collisions and header parameters in the envelope (under SpecInvoke)
\* ------------------------------------------------------------------------
\* the sanitized names of the operation's parameters with the given places
SanitizedParamNames(op, places) ==
  {sanitizeKey(op.parameters[i].name) :
     i \in {j \in DOMAIN op.parameters :
              /\ op.parameters[j].name # NameConnectionId
              /\ op.parameters[j].in \in places}}

\* the body properties whose sanitized name is also a path or query
\* parameter's
CollidingProperties(op) ==
  {op.properties[j].name :
     j \in {i \in DOMAIN op.properties :
              sanitizeKey(op.properties[i].name)
                \in SanitizedParamNames(op, {"path", "query"})}}

\* C39: a value supplied for a path or query parameter never appears in
\* the envelope body: the body entry of a property whose sanitized name
\* collides with such a parameter's is taken only from the input key
\* body_<sanitized>, and is absent when that key was not supplied.
C39_CollidingBodyFromPrefixedKey ==
  RequestBuilt =>
    \A name \in CollidingProperties(iOp) :
      LET key == BodyPrefix \o sanitizeKey(name) IN
        IF key \in DOMAIN iParams
          THEN name \in DOMAIN iRequest.body /\ iRequest.body[name] = iParams[key]
          ELSE name \notin DOMAIN iRequest.body

\* the query parameter's value sits in the body although body_id was given
C39_ParameterValueInBody ==
  /\ iPc = "arm" /\ iOp = OpPostWithId
  /\ DOMAIN iParams = {NameId, NameBodyId}
  /\ iParams[NameId] = "42" /\ iParams[NameBodyId] = "$$"
  /\ iRequest.queries[NameId] = "42"
  /\ iRequest.body[NameId] = "42"

\* without a collision the body entry is the value of the property's key
C39_BodyFromOwnKeyWithoutCollision ==
  RequestBuilt =>
    \A j \in DOMAIN iOp.properties :
      LET name == iOp.properties[j].name IN
        name \notin CollidingProperties(iOp)
          /\ sanitizeKey(name) \notin SanitizedParamNames(iOp, {"header"})
          /\ sanitizeKey(name) \in DOMAIN iParams =>
            /\ name \in DOMAIN iRequest.body
            /\ iRequest.body[name] = iParams[sanitizeKey(name)]

\* the input keys of the operation's header parameters
HeaderKeys(op) == SanitizedParamNames(op, {"header"})

\* params without the given keys
WithoutKeys(params, keys) == [k \in DOMAIN params \ keys |-> params[k]]

\* C40: a parameter with in = header is a key of the generated input
\* schema, but a value supplied for it is never forwarded: the envelope's
\* headers hold at most Content-Type, and path, queries and body are what
\* they would be had the value not been supplied.
C40_HeaderValueNotForwarded ==
  RequestBuilt =>
    /\ \A k \in HeaderKeys(iOp) :
         /\ k \in DOMAIN generateZodSchema(iOp)
         /\ generateZodSchema(iOp)[k].from = "param"
    /\ iRequest.headers \subseteq {"Content-Type"}
    /\ iRequest =
         BuildRequest(iOp, BuildParts(iOp, WithoutKeys(iParams, HeaderKeys(iOp))))

\* the header parameter's value is sent as the body's id
C40_HeaderValueInBody ==
  /\ iPc = "arm" /\ iOp = OpPostWithHeader
  /\ DOMAIN iParams = {NameId} /\ iParams[NameId] = "42"
  /\ iRequest.hasBody /\ iRequest.body[NameId] = "42"
  /\ iRequest.headers = {"Content-Type"}

\* a header value that no body property takes up goes nowhere
C40_HeaderValueDropped ==
  /\ iPc = "arm" /\ iOp = OpGetWithHeader
  /\ DOMAIN iParams = {NameId, NameIfMatch}
  /\ iRequest.headers = {} /\ ~iRequest.hasBody /\ ~iRequest.hasQueries
  /\ iRequest.path = <<Literal("items"), Literal(iParams[NameId])>>

\* for operations without such a collision the header value is not forwarded
C40_NotForwardedWithoutCollision ==
  RequestBuilt /\ (\A j \in DOMAIN iOp.properties :
                     sanitizeKey(iOp.properties[j].name) \notin HeaderKeys(iOp)) =>
    /\ iRequest.headers \subseteq {"Content-Type"}
    /\ iRequest =
         BuildRequest(iOp, BuildParts(iOp, WithoutKeys(iParams, HeaderKeys(iOp))))

====
